---- MODULE Spec2Model ----
(***************************************************************************)
(* Model of the ecopower_dynamic_prices integration: the key resolver, the *)
(* shape analyzer and the two source parsers of parsers.py, the price      *)
(* calculations of calculations.py, the config flow of config_flow.py, the *)
(* update coordinator of __init__.py and the number entities of number.py. *)
(*                                                                         *)
(* Python values are records tagged by "kind".  A str is a tuple of        *)
(* one-character strings, so that lower() and replace(" ", "_") are        *)
(* computed character by character.  A dict is the sequence of its         *)
(* (key, value) items in insertion order.                                  *)
(***************************************************************************)
EXTENDS Integers, Sequences, FiniteSets, TLC

VARIABLES attributes,     \* the source sensor's attribute mapping (a dict)
          possible_keys,  \* the candidate names handed to _find_key
          now,            \* dt_util.now(): the current instant
          market_price,   \* the market price handed to a price function
          params,         \* the CostParameters handed to the calculations
          parsed_data,    \* the ParsedPriceData handed to calculate_all_prices
          tie_up,         \* whether round() takes a decimal tie upwards: the
                          \* binary float next to k.5 units lies above or below it
          hass,           \* Home Assistant: the state machine (hass.states) and
                          \* the config entries (hass.config_entries)
          flow,           \* the EcopowerDynamicPricesConfigFlow in progress
          coordinator,    \* the EcopowerDataUpdateCoordinator of the entry set up
          entities,       \* the EcopowerCostNumber entities, by parameter key
          event,          \* the input handed to the handler called last
          set_calls,      \* the calls of async_set_native_value since the last refresh cycle
          call,           \* the function called last ("none" before any call)
          ret             \* what that call returned or raised

vars == <<attributes, possible_keys, now, market_price, params, parsed_data,
          tie_up, hass, flow, coordinator, entities, event, set_calls, call, ret>>

----------------------------------------------------------------------------
(* Bounds of the model *)

MaxKeys == 3     \* keys in a mapping handed to _find_key
MaxCands == 2    \* candidate names handed to _find_key
MaxAttrs == 2    \* top-level attributes of a sensor handed to the shape analyzer
MaxData == 2     \* entries of the 'data' array of an EPEX sensor
MaxToday == 2    \* entries of the 'raw_today' array of an hourly sensor
MaxTomorrow == 2 \* entries of the 'raw_tomorrow' array of an hourly sensor
MaxClockData == 1 \* entries of each array of a sensor parsed at successive instants
MaxTicks == 1     \* half hours the clock advances between two calls
MaxPrice == 4     \* market prices from -MaxPrice to MaxPrice quarters of a cent
MaxCalcToday == 3    \* intervals of the today bucket handed to the calculations
MaxCalcTomorrow == 1 \* intervals of the tomorrow bucket handed to the calculations
MaxShapeLen == 2     \* entries of an array whose later entries change between two analyses

----------------------------------------------------------------------------
(* str: tuples of characters, str.lower() and str.replace(" ", "_") *)

UpperChars == <<"A","B","C","D","E","F","G","H","I","J","K","L","M",
                "N","O","P","Q","R","S","T","U","V","W","X","Y","Z">>
LowerChars == <<"a","b","c","d","e","f","g","h","i","j","k","l","m",
                "n","o","p","q","r","s","t","u","v","w","x","y","z">>

\* the characters that are no upper-case letters: lower() leaves them as they are
OtherChars == { LowerChars[i] : i \in DOMAIN LowerChars } \cup {"_", " ", "1"}

\* c.lower(), for every character c
LowerChar ==
    [c \in { UpperChars[i] : i \in DOMAIN UpperChars } \cup OtherChars |->
        IF \E i \in DOMAIN UpperChars : UpperChars[i] = c
        THEN LowerChars[CHOOSE i \in DOMAIN UpperChars : UpperChars[i] = c]
        ELSE c]

lower(s) == [i \in DOMAIN s |-> LowerChar[s[i]]]

replace_space(s) == [i \in DOMAIN s |-> IF s[i] = " " THEN "_" ELSE s[i]]

(* The literal strings of the source *)
s_data == <<"d","a","t","a">>
s_Data == <<"D","a","t","a">>
s_raw_today == <<"r","a","w","_","t","o","d","a","y">>
s_Raw_today == <<"R","a","w"," ","t","o","d","a","y">>
s_raw_today_sp == <<"r","a","w"," ","t","o","d","a","y">>
s_RAW_TODAY == <<"R","A","W","_","T","O","D","A","Y">>
s_raw_tomorrow == <<"r","a","w","_","t","o","m","o","r","r","o","w">>
s_Raw_tomorrow == <<"R","a","w"," ","t","o","m","o","r","r","o","w">>
s_raw_tomorrow_sp == <<"r","a","w"," ","t","o","m","o","r","r","o","w">>
s_tomorrow_valid == <<"t","o","m","o","r","r","o","w","_","v","a","l","i","d">>
s_start_time == <<"s","t","a","r","t","_","t","i","m","e">>
s_end_time == <<"e","n","d","_","t","i","m","e">>
s_price_per_kwh == <<"p","r","i","c","e","_","p","e","r","_","k","w","h">>
s_price == <<"p","r","i","c","e">>
s_hour == <<"h","o","u","r">>
s_Start_time == <<"S","t","a","r","t"," ","t","i","m","e">>
s_End_Time == <<"E","n","d","_","T","i","m","e">>
s_Price == <<"P","r","i","c","e">>
s_Hour == <<"H","o","u","r">>
s_foo == <<"f","o","o">>

ATTR_DATA == s_data
ATTR_RAW_TODAY == s_raw_today
ATTR_RAW_TOMORROW == s_raw_tomorrow
ATTR_TOMORROW_VALID == s_tomorrow_valid
ATTR_START_TIME == s_start_time
ATTR_END_TIME == s_end_time
ATTR_PRICE_PER_KWH == s_price_per_kwh
ATTR_HOUR == s_hour
ATTR_PRICE == s_price

SOURCE_TYPE_EPEX_SPOT == "epex_spot"
SOURCE_TYPE_ENERGI_DATA_SERVICE == "energi_data_service"

----------------------------------------------------------------------------
(* dict: a sequence of items [k |-> key, v |-> value].  A key is           *)
(* [isstr |-> TRUE, chars |-> s] for the str s, or [isstr |-> FALSE, ...]  *)
(* for a key that is no str (isinstance(attr_key, str) is false).          *)

StrKey(s) == [isstr |-> TRUE, chars |-> s]
NonStrKey == [isstr |-> FALSE, chars |-> <<"1">>]

None == [kind |-> "None"]
Dict(items) == [kind |-> "dict", items |-> items]
List(items) == [kind |-> "list", items |-> items]
Tuple(items) == [kind |-> "tuple", items |-> items]

Item(k, v) == [k |-> k, v |-> v]

\* key in d
Contains(d, s) == \E i \in DOMAIN d.items : d.items[i].k = StrKey(s)

\* d[key], for a key that find_key returned
GetItem(d, key) == d.items[CHOOSE i \in DOMAIN d.items : d.items[i].k = key].v

\* list(d.keys())
Keys(d) == [i \in DOMAIN d.items |-> d.items[i].k]

----------------------------------------------------------------------------
(* _find_key (parsers.py 132-147) *)

\* the inner loop "for attr_key in attributes" from item i on, for one candidate
RECURSIVE ScanKeys(_, _, _)
ScanKeys(d, key, i) ==
    IF i > Len(d.items) THEN None
    ELSE LET attr_key == d.items[i].k IN
         IF ~attr_key.isstr THEN ScanKeys(d, key, i + 1)
         ELSE IF lower(attr_key.chars) = lower(key) THEN attr_key
         ELSE IF replace_space(lower(attr_key.chars)) = lower(key) THEN attr_key
         ELSE ScanKeys(d, key, i + 1)

\* the outer loop "for key in possible_keys" from candidate j on
RECURSIVE FindKeyFrom(_, _, _)
FindKeyFrom(d, keys, j) ==
    IF j > Len(keys) THEN None
    ELSE IF Contains(d, keys[j]) THEN StrKey(keys[j])
    ELSE LET m == ScanKeys(d, keys[j], 1) IN
         IF m # None THEN m ELSE FindKeyFrom(d, keys, j + 1)

\* a mutant: every candidate is tried verbatim before any tolerant scan
RECURSIVE FindKeyTolerantFrom(_, _, _)
FindKeyTolerantFrom(d, keys, j) ==
    IF j > Len(keys) THEN None
    ELSE LET m == ScanKeys(d, keys[j], 1) IN
         IF m # None THEN m ELSE FindKeyTolerantFrom(d, keys, j + 1)

find_key_verbatim_first(d, keys) ==
    IF \E j \in DOMAIN keys : Contains(d, keys[j])
    THEN StrKey(keys[CHOOSE j \in DOMAIN keys :
                       /\ Contains(d, keys[j])
                       /\ \A h \in 1..(j - 1) : ~Contains(d, keys[h])])
    ELSE FindKeyTolerantFrom(d, keys, 1)

_find_key(d, keys) == FindKeyFrom(d, keys, 1)

----------------------------------------------------------------------------
(* Python values other than containers *)

Num(n) == [kind |-> "float", n |-> n]              \* a number (int or float)
NumStr(n) == [kind |-> "str", text |-> "number", n |-> n]   \* a str float() accepts
BadStr == [kind |-> "str", text |-> "other"]       \* a str neither float() nor fromisoformat() accepts
Bool(b) == [kind |-> "bool", b |-> b]

\* type(value).__name__
TypeName(v) == IF v.kind = "None" THEN "NoneType" ELSE v.kind

\* _is_list_like (parsers.py 28-30)
_is_list_like(v) == v.kind \in {"list", "tuple"}

\* _is_dict_like (parsers.py 33-35): of the values modelled only a dict has keys()
_is_dict_like(v) == v.kind = "dict"

----------------------------------------------------------------------------
(* _has_array_with_keys (parsers.py 38-69) *)

\* a mutant: every entry of the array is inspected, not the first only
has_array_with_keys_every_entry(attrs, array_key, required_keys) ==
    IF ~Contains(attrs, array_key) THEN FALSE
    ELSE LET array == GetItem(attrs, StrKey(array_key)) IN
         IF ~_is_list_like(array) \/ Len(array.items) = 0 THEN FALSE
         ELSE \A n \in DOMAIN array.items :
                 /\ _is_dict_like(array.items[n])
                 /\ \A i \in DOMAIN required_keys :
                       _find_key(array.items[n], <<required_keys[i]>>) # None

_has_array_with_keys(attrs, array_key, required_keys) ==
    IF ~Contains(attrs, array_key) THEN FALSE
    ELSE LET array == GetItem(attrs, StrKey(array_key)) IN
         IF ~_is_list_like(array) \/ Len(array.items) = 0 THEN FALSE
         ELSE LET first_entry == array.items[1] IN
              IF ~_is_dict_like(first_entry) THEN FALSE
              ELSE \A i \in DOMAIN required_keys :
                       _find_key(first_entry, <<required_keys[i]>>) # None

----------------------------------------------------------------------------
(* analyze_sensor_shape (parsers.py 72-129).  The result's "details" dict is *)
(* a function from the names of the entries it holds.                       *)

NoDetails == [f \in {} |-> None]

ShapeResult(type, reason, details) ==
    [kind |-> "shape", detected_type |-> type, reason |-> reason, details |-> details]

\* the entries of details written for the array field named name (110-127)
ArrayDetails(attrs, name, prefix) ==
    IF ~Contains(attrs, name) THEN {}
    ELSE LET value == GetItem(attrs, StrKey(name)) IN
         {<<prefix \o "_type", TypeName(value)>>}
         \cup (IF _is_list_like(value) /\ Len(value.items) > 0
               THEN LET first == value.items[1] IN
                    {<<prefix \o "_first_entry_type", TypeName(first)>>}
                    \cup (IF _is_dict_like(first)
                          THEN {<<prefix \o "_first_entry_keys", Keys(first)>>}
                          ELSE {})
               ELSE {})

\* a mutant: the details name the candidate arrays only, not the keys present
unknown_details_arrays_only(attrs) ==
    LET entries == ArrayDetails(attrs, s_data, "data")
                   \cup ArrayDetails(attrs, s_raw_today, "raw_today")
    IN [f \in { e[1] : e \in entries } |-> (CHOOSE e \in entries : e[1] = f)[2]]

UnknownDetails(attrs) ==
    LET entries == {<<"attribute_keys", Keys(attrs)>>}
                   \cup ArrayDetails(attrs, s_data, "data")
                   \cup ArrayDetails(attrs, s_raw_today, "raw_today")
    IN [f \in { e[1] : e \in entries } |-> (CHOOSE e \in entries : e[1] = f)[2]]

\* a mutant: the hourly shape is tested before the EPEX shape
analyze_sensor_shape_hourly_first(attrs) ==
    IF _has_array_with_keys(attrs, s_raw_today, <<s_hour, s_price>>)
    THEN ShapeResult(SOURCE_TYPE_ENERGI_DATA_SERVICE,
                     "Found 'raw_today' array with hour, price", NoDetails)
    ELSE IF _has_array_with_keys(attrs, s_data, <<s_start_time, s_end_time, s_price_per_kwh>>)
    THEN ShapeResult(SOURCE_TYPE_EPEX_SPOT,
                     "Found 'data' array with start_time, end_time, price_per_kwh", NoDetails)
    ELSE IF _has_array_with_keys(attrs, s_data, <<s_start_time, s_end_time, s_price>>)
    THEN ShapeResult(SOURCE_TYPE_EPEX_SPOT,
                     "Found 'data' array with start_time, end_time, price", NoDetails)
    ELSE ShapeResult("None", "No matching shape found", UnknownDetails(attrs))

analyze_sensor_shape(attrs) ==
    IF _has_array_with_keys(attrs, s_data, <<s_start_time, s_end_time, s_price_per_kwh>>)
    THEN ShapeResult(SOURCE_TYPE_EPEX_SPOT,
                     "Found 'data' array with start_time, end_time, price_per_kwh", NoDetails)
    ELSE IF _has_array_with_keys(attrs, s_data, <<s_start_time, s_end_time, s_price>>)
    THEN ShapeResult(SOURCE_TYPE_EPEX_SPOT,
                     "Found 'data' array with start_time, end_time, price", NoDetails)
    ELSE IF _has_array_with_keys(attrs, s_raw_today, <<s_hour, s_price>>)
    THEN ShapeResult(SOURCE_TYPE_ENERGI_DATA_SERVICE,
                     "Found 'raw_today' array with hour, price", NoDetails)
    ELSE ShapeResult("None", "No matching shape found", UnknownDetails(attrs))

----------------------------------------------------------------------------
(* The parser registry and its lookups (parsers.py 444-478) *)

Parser(name, type) == [kind |-> "parser", name |-> name, source_type |-> type]

PARSERS == << Parser("EpexSpotParser", SOURCE_TYPE_EPEX_SPOT),
              Parser("EnergiDataServiceParser", SOURCE_TYPE_ENERGI_DATA_SERVICE) >>

get_parser_by_type(source_type) ==
    IF \E i \in DOMAIN PARSERS : PARSERS[i].source_type = source_type
    THEN PARSERS[CHOOSE i \in DOMAIN PARSERS :
                    /\ PARSERS[i].source_type = source_type
                    /\ \A h \in 1..(i - 1) : PARSERS[h].source_type # source_type]
    ELSE None

get_parser_for_attributes(attrs) ==
    LET detected_type == analyze_sensor_shape(attrs).detected_type IN
    IF detected_type = "None" THEN None ELSE get_parser_by_type(detected_type)

----------------------------------------------------------------------------
(* datetime.  A datetime is [aware, local, off]: its wall-clock reading     *)
(* "local" counted in half hours, and, when it is aware, its UTC offset     *)
(* "off" in half hours (0 when it is naive).  A timedelta is a number of    *)
(* half hours.                                                              *)

Hour == 2       \* timedelta(hours=1)
Day == 48       \* timedelta(days=1)

Aware(local, off) == [aware |-> TRUE, local |-> local, off |-> off]
Naive(local) == [aware |-> FALSE, local |-> local, off |-> 0]

IsoStr(dt) == [kind |-> "str", text |-> "iso", dt |-> dt]   \* an ISO-8601 str
DateTimeValue(dt) == [kind |-> "datetime", dt |-> dt]       \* a datetime object

\* the instant an aware datetime denotes; the reading itself for a naive one
Instant(dt) == dt.local - dt.off

\* a comparison or difference of a naive and an aware datetime raises TypeError
Comparable(a, b) == a.aware = b.aware

\* a <= b and a < b, for comparable a and b
DtLe(a, b) == Instant(a) <= Instant(b)
DtLt(a, b) == Instant(a) < Instant(b)

\* a - b, for comparable a and b
DtDiff(a, b) == Instant(a) - Instant(b)

\* dt + timedelta
DtAdd(dt, delta) == [dt EXCEPT !.local = dt.local + delta]

\* dt.date(): the calendar day of the wall-clock reading
Date(dt) == dt.local \div Day

----------------------------------------------------------------------------
(* Conversions.  A result is [ok |-> TRUE, v |-> value] or                  *)
(* [ok |-> FALSE, exc |-> the exception raised].                            *)

Ok(v) == [ok |-> TRUE, v |-> v]
Raised(exc) == [ok |-> FALSE, exc |-> exc]

\* SourceParser._parse_datetime (parsers.py 193-199)
_parse_datetime(value) ==
    IF value.kind = "datetime" THEN Ok(value.dt)
    ELSE IF value.kind = "str"
         THEN IF value.text = "iso" THEN Ok(value.dt) ELSE Raised("ValueError")
         ELSE Raised("ValueError")

\* float(value)
float(value) ==
    IF value.kind = "float" THEN Ok(value.n)
    ELSE IF value.kind = "bool" THEN Ok(IF value.b THEN 1 ELSE 0)
    ELSE IF value.kind = "str"
         THEN IF value.text = "number" THEN Ok(value.n) ELSE Raised("ValueError")
         ELSE Raised("TypeError")

\* bool(value): the truth value of a Python object
Truthy(value) ==
    IF value.kind = "None" THEN FALSE
    ELSE IF value.kind = "bool" THEN value.b
    ELSE IF value.kind = "float" THEN value.n # 0
    ELSE IF value.kind \in {"list", "tuple", "dict"} THEN Len(value.items) > 0
    ELSE TRUE

\* _find_key applied to an entry of any type: "key in entry" raises TypeError
\* for None, a number, a bool or a datetime; a str, list or tuple entry of this
\* model holds none of the names looked up
FindKeyIn(entry, keys) ==
    IF entry.kind = "dict" THEN Ok(_find_key(entry, keys))
    ELSE IF entry.kind \in {"str", "list", "tuple"} THEN Ok(None)
    ELSE Raised("TypeError")

\* what "for entry in value" iterates over: the elements of a list or tuple,
\* the keys of a dict and the characters of a str (entries with no field to
\* resolve); any other value raises TypeError
Iterate(value) ==
    IF value.kind \in {"list", "tuple"} THEN Ok(value.items)
    ELSE IF value.kind = "dict" THEN Ok([i \in DOMAIN value.items |-> BadStr])
    ELSE IF value.kind = "str" THEN Ok(<<BadStr>>)
    ELSE Raised("TypeError")

----------------------------------------------------------------------------
(* PriceEntry, ParsedPriceData and list.sort (parsers.py 158-174, 282-284)  *)

PriceEntry(start_time, end_time, price) ==
    [start_time |-> start_time, end_time |-> end_time, price |-> price]

ParsedPriceData(today, tomorrow, current_price, tomorrow_valid) ==
    [kind |-> "ParsedPriceData", today |-> today, tomorrow |-> tomorrow,
     current_price |-> current_price, tomorrow_valid |-> tomorrow_valid]

RaisedOut(exc) == [kind |-> "raise", exc |-> exc]

\* insert e behind the entries of the sorted q that do not start after it
RECURSIVE InsertSorted(_, _)
InsertSorted(q, e) ==
    IF q = <<>> THEN <<e>>
    ELSE IF DtLt(e.start_time, q[Len(q)].start_time)
         THEN Append(InsertSorted(SubSeq(q, 1, Len(q) - 1), e), q[Len(q)])
         ELSE Append(q, e)

RECURSIVE SortedPrefix(_, _)
SortedPrefix(q, n) ==
    IF n = 0 THEN <<>> ELSE InsertSorted(SortedPrefix(q, n - 1), q[n])

\* a mutant: the sort leaves the list as it is
sort_skipped(q) ==
    IF \E i, j \in DOMAIN q : ~Comparable(q[i].start_time, q[j].start_time)
    THEN Raised("TypeError")
    ELSE Ok(q)

\* entries.sort(key=lambda x: x.start_time): stable, ascending; comparing the
\* keys raises TypeError when naive and aware start times are mixed
SortByStart(q) ==
    IF \E i, j \in DOMAIN q : ~Comparable(q[i].start_time, q[j].start_time)
    THEN Raised("TypeError")
    ELSE Ok(SortedPrefix(q, Len(q)))

----------------------------------------------------------------------------
(* EpexSpotParser.parse_prices (parsers.py 236-291) *)

\* lines 251-260 for one entry: the three keys resolved and the three values
\* converted, or the reason the entry is left ("continue" at 256, or the
\* exception caught at 278)
EpexFields(entry) ==
    LET start_key == FindKeyIn(entry, <<ATTR_START_TIME, s_start_time>>)
        end_key == FindKeyIn(entry, <<ATTR_END_TIME, s_end_time>>)
        price_key == FindKeyIn(entry, <<ATTR_PRICE_PER_KWH, s_price_per_kwh, s_price>>)
    IN IF ~start_key.ok THEN Raised(start_key.exc)
       ELSE IF start_key.v = None \/ end_key.v = None \/ price_key.v = None
            THEN Raised("continue")
       ELSE LET start_time == _parse_datetime(GetItem(entry, start_key.v))
                end_time == _parse_datetime(GetItem(entry, end_key.v))
                price == float(GetItem(entry, price_key.v))
            IN IF ~start_time.ok THEN Raised(start_time.exc)
               ELSE IF ~end_time.ok THEN Raised(end_time.exc)
               ELSE IF ~price.ok THEN Raised(price.exc)
               ELSE Ok(PriceEntry(start_time.v, end_time.v, price.v))

\* a mutant: every entry that does not start today goes to the tomorrow bucket
epex_bucket_rest_tomorrow(acc, e, t) ==
    IF Date(e.start_time) = Date(t)
    THEN [acc EXCEPT !.today = Append(@, e)]
    ELSE [acc EXCEPT !.tomorrow = Append(@, e)]

\* a mutant: the entries that start tomorrow are dropped
epex_bucket_today_only(acc, e, t) ==
    IF Date(e.start_time) = Date(t)
    THEN [acc EXCEPT !.today = Append(@, e)]
    ELSE acc

\* lines 268-272: the entry is appended to the bucket of its start date
EpexBucket(acc, e, t) ==
    IF Date(e.start_time) = Date(t)
    THEN [acc EXCEPT !.today = Append(@, e)]
    ELSE IF Date(e.start_time) = Date(t) + 1
         THEN [acc EXCEPT !.tomorrow = Append(@, e)]
         ELSE acc

\* a mutant: the range is closed at its end
current_price_closed(acc, e, t) ==
    IF ~Comparable(e.start_time, t) THEN acc
    ELSE IF ~DtLe(e.start_time, t) THEN acc
    ELSE IF ~Comparable(t, e.end_time) THEN acc
    ELSE IF DtLe(t, e.end_time) THEN [acc EXCEPT !.current_price = Num(e.price)]
    ELSE acc

\* lines 274-276: "if start_time <= now < end_time"; a comparison that raises
\* TypeError is caught at 278, after the entry was appended
CurrentPrice(acc, e, t) ==
    IF ~Comparable(e.start_time, t) THEN acc
    ELSE IF ~DtLe(e.start_time, t) THEN acc
    ELSE IF ~Comparable(t, e.end_time) THEN acc
    ELSE IF DtLt(t, e.end_time) THEN [acc EXCEPT !.current_price = Num(e.price)]
    ELSE acc

\* the body of the loop at 249-280 for one entry
EpexEntry(acc, entry, t) ==
    LET f == EpexFields(entry) IN
    IF ~f.ok THEN acc
    ELSE CurrentPrice(EpexBucket(acc, f.v, t), f.v, t)

\* the loop at 249-280 over the first n entries
RECURSIVE EpexLoop(_, _, _)
EpexLoop(data, n, t) ==
    IF n = 0 THEN [today |-> <<>>, tomorrow |-> <<>>, current_price |-> None]
    ELSE EpexEntry(EpexLoop(data, n - 1, t), data[n], t)

EpexSpotParser_get_data_key(attrs) == _find_key(attrs, <<ATTR_DATA, s_Data, s_data>>)

\* lines 282-291: both buckets sorted and the result built
EpexSpotParser_result(acc) ==
    LET today_entries == SortByStart(acc.today)
        tomorrow_entries == SortByStart(acc.tomorrow)
    IN IF ~today_entries.ok THEN RaisedOut(today_entries.exc)
       ELSE IF ~tomorrow_entries.ok THEN RaisedOut(tomorrow_entries.exc)
       ELSE ParsedPriceData(today_entries.v, tomorrow_entries.v,
                            acc.current_price,
                            Bool(Len(tomorrow_entries.v) > 0))

EpexSpotParser_parse_prices(attrs, t) ==
    LET data_key == EpexSpotParser_get_data_key(attrs)
        data == IF data_key # None THEN GetItem(attrs, data_key) ELSE List(<<>>)
        entries == Iterate(data)
    IN IF ~entries.ok THEN RaisedOut(entries.exc)
       ELSE EpexSpotParser_result(EpexLoop(entries.v, Len(entries.v), t))

----------------------------------------------------------------------------
(* EnergiDataServiceParser.parse_prices (parsers.py 329-441) *)

\* lines 348-355 (396-403): the two keys resolved and the two values converted
HourlyFields(entry) ==
    LET hour_key == FindKeyIn(entry, <<ATTR_HOUR, s_hour>>)
        price_key == FindKeyIn(entry, <<ATTR_PRICE, s_price>>)
    IN IF ~hour_key.ok THEN Raised(hour_key.exc)
       ELSE IF hour_key.v = None \/ price_key.v = None THEN Raised("continue")
       ELSE LET start_time == _parse_datetime(GetItem(entry, hour_key.v))
                price == float(GetItem(entry, price_key.v))
            IN IF ~start_time.ok THEN Raised(start_time.exc)
               ELSE IF ~price.ok THEN Raised(price.exc)
               ELSE Ok([start_time |-> start_time.v, price |-> price.v])

\* lines 359-364 (407-412): the end taken from the entry that follows
EndFromNext(next_entry, start_time) ==
    LET next_hour_key == FindKeyIn(next_entry, <<ATTR_HOUR, s_hour>>) IN
    IF ~next_hour_key.ok THEN Raised(next_hour_key.exc)
    ELSE IF next_hour_key.v # None
         THEN _parse_datetime(GetItem(next_entry, next_hour_key.v))
         ELSE Ok(DtAdd(start_time, Hour))

\* a mutant: the last entry of raw_today always gets the one-hour width
end_from_previous_one_hour(raw, i, start_time) == Ok(DtAdd(start_time, Hour))

\* lines 367-376: the end of the last entry of raw_today
EndFromPrevious(raw, i, start_time) ==
    IF i > 1
    THEN LET prev_hour_key == FindKeyIn(raw[i - 1], <<ATTR_HOUR, s_hour>>) IN
         IF ~prev_hour_key.ok THEN Raised(prev_hour_key.exc)
         ELSE IF prev_hour_key.v # None
              THEN LET prev_start == _parse_datetime(GetItem(raw[i - 1], prev_hour_key.v)) IN
                   IF ~prev_start.ok THEN Raised(prev_start.exc)
                   ELSE IF ~Comparable(start_time, prev_start.v) THEN Raised("TypeError")
                   ELSE Ok(DtAdd(start_time, DtDiff(start_time, prev_start.v)))
              ELSE Ok(DtAdd(start_time, Hour))
    ELSE Ok(DtAdd(start_time, Hour))

\* lines 357-376: the end of the i-th entry of raw_today
TodayEnd(raw, i, start_time) ==
    IF i < Len(raw) THEN EndFromNext(raw[i + 1], start_time)
    ELSE EndFromPrevious(raw, i, start_time)

\* lines 414-419: the end of the last entry of raw_tomorrow
EndFromToday(today_entries, start_time) ==
    IF Len(today_entries) > 1
    THEN IF ~Comparable(today_entries[2].start_time, today_entries[1].start_time)
         THEN Raised("TypeError")
         ELSE Ok(DtAdd(start_time,
                       DtDiff(today_entries[2].start_time, today_entries[1].start_time)))
    ELSE Ok(DtAdd(start_time, Hour))

\* a mutant: the last entry of raw_tomorrow infers its end from the entry before it
tomorrow_end_from_previous(raw, i, start_time, today_entries) ==
    IF i < Len(raw) THEN EndFromNext(raw[i + 1], start_time)
    ELSE IF i > 1 THEN EndFromPrevious(raw, i, start_time)
    ELSE EndFromToday(today_entries, start_time)

\* lines 405-419: the end of the i-th entry of raw_tomorrow
TomorrowEnd(raw, i, start_time, today_entries) ==
    IF i < Len(raw) THEN EndFromNext(raw[i + 1], start_time)
    ELSE EndFromToday(today_entries, start_time)

\* the body of the loop at 346-391 for the i-th entry
TodayEntry(acc, raw, i, t) ==
    LET f == HourlyFields(raw[i]) IN
    IF ~f.ok THEN acc
    ELSE LET end_time == TodayEnd(raw, i, f.v.start_time) IN
         IF ~end_time.ok THEN acc
         ELSE LET e == PriceEntry(f.v.start_time, end_time.v, f.v.price) IN
              CurrentPrice([acc EXCEPT !.today = Append(@, e)], e, t)

RECURSIVE TodayLoop(_, _, _)
TodayLoop(raw, n, t) ==
    IF n = 0 THEN [today |-> <<>>, tomorrow |-> <<>>, current_price |-> None]
    ELSE TodayEntry(TodayLoop(raw, n - 1, t), raw, n, t)

\* the body of the loop at 394-430 for the i-th entry
TomorrowEntry(acc, raw, i) ==
    LET f == HourlyFields(raw[i]) IN
    IF ~f.ok THEN acc
    ELSE LET end_time == TomorrowEnd(raw, i, f.v.start_time, acc.today) IN
         IF ~end_time.ok THEN acc
         ELSE [acc EXCEPT !.tomorrow =
                  Append(@, PriceEntry(f.v.start_time, end_time.v, f.v.price))]

RECURSIVE TomorrowLoop(_, _, _)
TomorrowLoop(acc, raw, n) ==
    IF n = 0 THEN acc ELSE TomorrowEntry(TomorrowLoop(acc, raw, n - 1), raw, n)

EnergiDataServiceParser_get_raw_today_key(attrs) ==
    _find_key(attrs, <<ATTR_RAW_TODAY, s_raw_today, s_Raw_today, s_raw_today_sp>>)

EnergiDataServiceParser_get_raw_tomorrow_key(attrs) ==
    _find_key(attrs, <<ATTR_RAW_TOMORROW, s_raw_tomorrow, s_Raw_tomorrow, s_raw_tomorrow_sp>>)

\* lines 436-441: "tomorrow_valid and len(tomorrow_entries) > 0"
TomorrowValid(tomorrow_valid, tomorrow_entries) ==
    IF Truthy(tomorrow_valid) THEN Bool(Len(tomorrow_entries) > 0) ELSE tomorrow_valid

\* lines 432-441: both buckets sorted and the result built
EnergiDataServiceParser_result(acc, tomorrow_valid) ==
    LET today_entries == SortByStart(acc.today)
        tomorrow_entries == SortByStart(acc.tomorrow)
    IN IF ~today_entries.ok THEN RaisedOut(today_entries.exc)
       ELSE IF ~tomorrow_entries.ok THEN RaisedOut(tomorrow_entries.exc)
       ELSE ParsedPriceData(today_entries.v, tomorrow_entries.v,
                            acc.current_price,
                            TomorrowValid(tomorrow_valid, tomorrow_entries.v))

EnergiDataServiceParser_parse_prices(attrs, t) ==
    LET raw_today_key == EnergiDataServiceParser_get_raw_today_key(attrs)
        raw_tomorrow_key == EnergiDataServiceParser_get_raw_tomorrow_key(attrs)
        raw_today == IF raw_today_key # None
                     THEN GetItem(attrs, raw_today_key) ELSE List(<<>>)
        raw_tomorrow == IF raw_tomorrow_key # None
                        THEN GetItem(attrs, raw_tomorrow_key) ELSE List(<<>>)
        tomorrow_valid_key == _find_key(attrs, <<ATTR_TOMORROW_VALID, s_tomorrow_valid>>)
        tomorrow_valid == IF tomorrow_valid_key # None
                          THEN GetItem(attrs, tomorrow_valid_key) ELSE Bool(FALSE)
        today_raw == Iterate(raw_today)
        tomorrow_raw == Iterate(raw_tomorrow)
    IN IF ~today_raw.ok THEN RaisedOut(today_raw.exc)
       ELSE IF ~tomorrow_raw.ok THEN RaisedOut(tomorrow_raw.exc)
       ELSE EnergiDataServiceParser_result(
                TomorrowLoop(TodayLoop(today_raw.v, Len(today_raw.v), t),
                             tomorrow_raw.v, Len(tomorrow_raw.v)),
                tomorrow_valid)

----------------------------------------------------------------------------
(* calculations.py.  A price or a cost in EUR/kWh is an integer number of   *)
(* 1/10000 EUR (four decimals), a multiplier an integer number of           *)
(* hundredths, the VAT rate an integer percentage.                          *)

DEFAULT_CONSUMPTION_MULTIPLIER == 102
DEFAULT_SUPPLIER_COST == 40
DEFAULT_INJECTION_MULTIPLIER == 98
DEFAULT_INJECTION_DEDUCTION == 150
DEFAULT_GREEN_CERTIFICATES == 110
DEFAULT_CHP_CERTIFICATES == 39
DEFAULT_DISTRIBUTION_COST == 589
DEFAULT_ENERGY_CONTRIBUTION == 19
DEFAULT_EXCISE_TAX == 475
DEFAULT_VAT_RATE == 6

\* CostParameters(): every field at its default
CostParameters ==
    [consumption_multiplier |-> DEFAULT_CONSUMPTION_MULTIPLIER,
     supplier_cost |-> DEFAULT_SUPPLIER_COST,
     injection_multiplier |-> DEFAULT_INJECTION_MULTIPLIER,
     injection_deduction |-> DEFAULT_INJECTION_DEDUCTION,
     green_certificates |-> DEFAULT_GREEN_CERTIFICATES,
     chp_certificates |-> DEFAULT_CHP_CERTIFICATES,
     distribution_cost |-> DEFAULT_DISTRIBUTION_COST,
     energy_contribution |-> DEFAULT_ENERGY_CONTRIBUTION,
     excise_tax |-> DEFAULT_EXCISE_TAX,
     vat_rate |-> DEFAULT_VAT_RATE]

\* round(x / d): the multiple of d nearest to x, counted in d; when x lies
\* half way between two multiples the float that stands for it lies above or
\* below the half, and round() follows it (tie_up)
round(x, d) ==
    LET q == x \div d
        r == x % d
    IN IF 2 * r < d THEN q
       ELSE IF 2 * r > d THEN q + 1
       ELSE IF tie_up THEN q + 1 ELSE q

\* a mutant: VAT is applied to the scaled price only, the costs are added after it
consumption_price_vat_on_base(p, cp) ==
    LET base == p * cp.consumption_multiplier
        total_costs == cp.supplier_cost + cp.green_certificates + cp.chp_certificates
                       + cp.distribution_cost + cp.energy_contribution + cp.excise_tax
        vat_multiplier == 100 + cp.vat_rate
    IN round(base * vat_multiplier + total_costs * 100 * 100, 10000)

\* calculate_consumption_price (calculations.py 78-107): base in 1e-6 EUR,
\* vat_multiplier in hundredths, their product in 1e-8 EUR, rounded to 1e-4
calculate_consumption_price(p, cp) ==
    LET base == p * cp.consumption_multiplier
        total_costs == cp.supplier_cost + cp.green_certificates + cp.chp_certificates
                       + cp.distribution_cost + cp.energy_contribution + cp.excise_tax
        vat_multiplier == 100 + cp.vat_rate
    IN round((base + total_costs * 100) * vat_multiplier, 10000)

\* a mutant: VAT is applied to the injection price
injection_price_with_vat(p, cp) ==
    round((p * cp.injection_multiplier - cp.injection_deduction * 100)
              * (100 + cp.vat_rate), 10000)

\* calculate_injection_price (calculations.py 110-127): the difference in
\* 1e-6 EUR, rounded to 1e-4
calculate_injection_price(p, cp) ==
    round(p * cp.injection_multiplier - cp.injection_deduction * 100, 100)

\* price_func(price, params) for the price function named f, one of the two
\* that calculate_all_prices hands to _calculate_price_data (lines 177-187)
price_func(f, p, cp) ==
    IF f = "calculate_consumption_price" THEN calculate_consumption_price(p, cp)
    ELSE calculate_injection_price(p, cp)

\* CalculatedPriceEntry (calculations.py 130-136)
CalculatedPriceEntry(start_time, end_time, price_per_kwh) ==
    [start_time |-> start_time, end_time |-> end_time, price_per_kwh |-> price_per_kwh]

\* datetime.isoformat()
isoformat(dt) == IsoStr(dt)

\* lines 208-225 (232-249): the three lists built from one bucket
BucketPrices(entries, cp, f) ==
    [i \in DOMAIN entries |-> price_func(f, entries[i].price, cp)]

BucketData(entries, cp, f) ==
    [i \in DOMAIN entries |->
        CalculatedPriceEntry(isoformat(entries[i].start_time),
                             isoformat(entries[i].end_time),
                             price_func(f, entries[i].price, cp))]

BucketRaw(entries, cp, f) ==
    [i \in DOMAIN entries |->
        Dict(<<Item(StrKey(s_hour), isoformat(entries[i].start_time)),
               Item(StrKey(s_price), Num(price_func(f, entries[i].price, cp)))>>)]

\* a mutant: the detailed list puts the records of tomorrow first
all_data_tomorrow_first(today_data, tomorrow_data) == tomorrow_data \o today_data

\* line 252: all_data = today_data + tomorrow_data
AllData(today_data, tomorrow_data) == today_data \o tomorrow_data

RECURSIVE sum(_)
sum(prices) == IF prices = <<>> THEN 0 ELSE prices[Len(prices)] + sum(SubSeq(prices, 1, Len(prices) - 1))

\* a mutant: the minimum is taken to be the first price
min_first(prices) == prices[1]

\* min(prices), max(prices) for a list that is not empty
min(prices) ==
    CHOOSE x \in { prices[i] : i \in DOMAIN prices } : \A i \in DOMAIN prices : x <= prices[i]
max(prices) ==
    CHOOSE x \in { prices[i] : i \in DOMAIN prices } : \A i \in DOMAIN prices : x >= prices[i]

\* round(mean(prices), 4): statistics.mean gives the float nearest to the
\* exact quotient
RoundedMean(prices) == round(sum(prices), Len(prices))

\* "xs if xs else None" for a list xs
ListOrNone(xs) == IF xs # <<>> THEN List(xs) ELSE None

\* lines 265-272: the records of the detailed list as dicts
DataDicts(all_data) ==
    [i \in DOMAIN all_data |->
        Dict(<<Item(StrKey(s_start_time), all_data[i].start_time),
               Item(StrKey(s_end_time), all_data[i].end_time),
               Item(StrKey(s_price_per_kwh), Num(all_data[i].price_per_kwh))>>)]

\* lines 263-286: the CalculatedPriceData built from the lists
CalculatedPriceData(current_price, all_data, today_raw, tomorrow_raw, today_prices, tomorrow_prices, tomorrow_valid) ==
    [kind |-> "CalculatedPriceData",
     current_price |-> current_price,
     data |-> ListOrNone(DataDicts(all_data)),
     raw_today |-> ListOrNone(today_raw),
     raw_tomorrow |-> ListOrNone(tomorrow_raw),
     today |-> ListOrNone([i \in DOMAIN today_prices |-> Num(today_prices[i])]),
     tomorrow |-> ListOrNone([i \in DOMAIN tomorrow_prices |-> Num(tomorrow_prices[i])]),
     today_min |-> IF today_prices # <<>> THEN Num(min(today_prices)) ELSE None,
     today_max |-> IF today_prices # <<>> THEN Num(max(today_prices)) ELSE None,
     today_mean |-> IF today_prices # <<>> THEN Num(RoundedMean(today_prices)) ELSE None,
     tomorrow_min |-> IF tomorrow_prices # <<>> THEN Num(min(tomorrow_prices)) ELSE None,
     tomorrow_max |-> IF tomorrow_prices # <<>> THEN Num(max(tomorrow_prices)) ELSE None,
     tomorrow_mean |-> IF tomorrow_prices # <<>>
                       THEN Num(RoundedMean(tomorrow_prices)) ELSE None,
     tomorrow_valid |-> tomorrow_valid]

\* _calculate_price_data (calculations.py 192-287)
_calculate_price_data(parsed, cp, f) ==
    CalculatedPriceData(
        IF parsed.current_price # None
        THEN Num(price_func(f, parsed.current_price.n, cp)) ELSE None,
        AllData(BucketData(parsed.today, cp, f),
                BucketData(parsed.tomorrow, cp, f)),
        BucketRaw(parsed.today, cp, f),
        BucketRaw(parsed.tomorrow, cp, f),
        BucketPrices(parsed.today, cp, f),
        BucketPrices(parsed.tomorrow, cp, f),
        parsed.tomorrow_valid)

\* calculate_all_prices (calculations.py 164-189)
calculate_all_prices(parsed, cp) ==
    Tuple(<<_calculate_price_data(parsed, cp, "calculate_consumption_price"),
            _calculate_price_data(parsed, cp, "calculate_injection_price")>>)

----------------------------------------------------------------------------
(* The configuration keys and the number entity table (const.py 5-27,      *)
(* 44-137).  A parameter value is the number Num(n) counted as in the      *)
(* calculations: multipliers in hundredths, costs in 1e-4 EUR, VAT in      *)
(* percent.                                                                *)

CONF_SOURCE_ENTITY == "source_entity_id"
CONF_SOURCE_TYPE == "source_type"

CONF_CONSUMPTION_MULTIPLIER == "consumption_multiplier"
CONF_SUPPLIER_COST == "supplier_cost"
CONF_INJECTION_MULTIPLIER == "injection_multiplier"
CONF_INJECTION_DEDUCTION == "injection_deduction"
CONF_GREEN_CERTIFICATES == "green_certificates"
CONF_CHP_CERTIFICATES == "chp_certificates"
CONF_DISTRIBUTION_COST == "distribution_cost"
CONF_ENERGY_CONTRIBUTION == "energy_contribution"
CONF_EXCISE_TAX == "excise_tax"
CONF_VAT_RATE == "vat_rate"

\* the keys of NUMBER_ENTITIES in the order of the table, each with its "default"
NUMBER_ENTITIES ==
    << [key |-> CONF_CONSUMPTION_MULTIPLIER, default |-> Num(DEFAULT_CONSUMPTION_MULTIPLIER)],
       [key |-> CONF_SUPPLIER_COST, default |-> Num(DEFAULT_SUPPLIER_COST)],
       [key |-> CONF_INJECTION_MULTIPLIER, default |-> Num(DEFAULT_INJECTION_MULTIPLIER)],
       [key |-> CONF_INJECTION_DEDUCTION, default |-> Num(DEFAULT_INJECTION_DEDUCTION)],
       [key |-> CONF_GREEN_CERTIFICATES, default |-> Num(DEFAULT_GREEN_CERTIFICATES)],
       [key |-> CONF_CHP_CERTIFICATES, default |-> Num(DEFAULT_CHP_CERTIFICATES)],
       [key |-> CONF_DISTRIBUTION_COST, default |-> Num(DEFAULT_DISTRIBUTION_COST)],
       [key |-> CONF_ENERGY_CONTRIBUTION, default |-> Num(DEFAULT_ENERGY_CONTRIBUTION)],
       [key |-> CONF_EXCISE_TAX, default |-> Num(DEFAULT_EXCISE_TAX)],
       [key |-> CONF_VAT_RATE, default |-> Num(DEFAULT_VAT_RATE)] >>

\* d.get(k, default) for a dict d whose keys are names
dict_get(d, k, default) == IF k \in DOMAIN d THEN d[k] ELSE default

\* CostParameters.from_dict (calculations.py 49-75): the fields hold the
\* values as they are stored in data
CostParameters_from_dict(data) ==
    [consumption_multiplier |->
        dict_get(data, CONF_CONSUMPTION_MULTIPLIER, Num(DEFAULT_CONSUMPTION_MULTIPLIER)),
     supplier_cost |-> dict_get(data, CONF_SUPPLIER_COST, Num(DEFAULT_SUPPLIER_COST)),
     injection_multiplier |->
        dict_get(data, CONF_INJECTION_MULTIPLIER, Num(DEFAULT_INJECTION_MULTIPLIER)),
     injection_deduction |->
        dict_get(data, CONF_INJECTION_DEDUCTION, Num(DEFAULT_INJECTION_DEDUCTION)),
     green_certificates |->
        dict_get(data, CONF_GREEN_CERTIFICATES, Num(DEFAULT_GREEN_CERTIFICATES)),
     chp_certificates |-> dict_get(data, CONF_CHP_CERTIFICATES, Num(DEFAULT_CHP_CERTIFICATES)),
     distribution_cost |->
        dict_get(data, CONF_DISTRIBUTION_COST, Num(DEFAULT_DISTRIBUTION_COST)),
     energy_contribution |->
        dict_get(data, CONF_ENERGY_CONTRIBUTION, Num(DEFAULT_ENERGY_CONTRIBUTION)),
     excise_tax |-> dict_get(data, CONF_EXCISE_TAX, Num(DEFAULT_EXCISE_TAX)),
     vat_rate |-> dict_get(data, CONF_VAT_RATE, Num(DEFAULT_VAT_RATE))]

\* the numbers held by the fields of a CostParameters none of which is None
Floats(cp) == [f \in DOMAIN cp |-> cp[f].n]

----------------------------------------------------------------------------
(* Home Assistant as the integration uses it.  hass.states maps the entity *)
(* ids that have a state to the attributes of that state;                  *)
(* hass.config_entries is the list of the config entries of the domain, a  *)
(* config entry being referred to by its place in the list.  A str that    *)
(* may be None is the string "None" when it is.                            *)

NoStates == [e \in {} |-> None]
NoEntities == [k \in {} |-> None]

State(attrs) == [kind |-> "State", attributes |-> attrs]

\* hass.states.get(entity_id)
states_get(h, entity_id) ==
    IF entity_id \in DOMAIN h.states THEN State(h.states[entity_id]) ELSE None

ConfigEntry(unique_id, data, options) ==
    [kind |-> "ConfigEntry", unique_id |-> unique_id, data |-> data, options |-> options]

EntryData(source_entity_id, source_type) ==
    [source_entity_id |-> source_entity_id, source_type |-> source_type]

----------------------------------------------------------------------------
(* The config flow (config_flow.py 45-172) *)

\* a mutant: a sensor without a known shape passes as an EPEX sensor
validate_source_sensor_unknown_as_epex(h, entity_id) ==
    LET state == states_get(h, entity_id) IN
    IF state = None THEN <<FALSE, "sensor_not_found">>
    ELSE IF ~Truthy(state.attributes) THEN <<FALSE, "no_attributes">>
    ELSE LET shape_info == analyze_sensor_shape(state.attributes) IN
         IF shape_info.detected_type = "None" THEN <<TRUE, SOURCE_TYPE_EPEX_SPOT>>
         ELSE <<TRUE, shape_info.detected_type>>

\* _validate_source_sensor (45-100): (is_valid, source_type or error_key).
\* None of the attribute values of this model makes analyze_sensor_shape
\* raise, so the handler of line 98 is never entered.
_validate_source_sensor(h, entity_id) ==
    LET state == states_get(h, entity_id) IN
    IF state = None THEN <<FALSE, "sensor_not_found">>
    ELSE IF ~Truthy(state.attributes) THEN <<FALSE, "no_attributes">>
    ELSE LET shape_info == analyze_sensor_shape(state.attributes) IN
         IF shape_info.detected_type = "None" THEN <<FALSE, "cannot_parse">>
         ELSE <<TRUE, shape_info.detected_type>>

\* EcopowerDynamicPricesConfigFlow.__init__ (110-113); unique_id and cur_step
\* are kept by the flow manager: the unique id set by async_set_unique_id and
\* the step of the form shown last ("init" before the first, "done" once the
\* flow has finished)
ConfigFlow ==
    [kind |-> "flow", _source_entity_id |-> "None", _source_type |-> "None",
     unique_id |-> "None", cur_step |-> "init"]

NoErrors == [k \in {} |-> "None"]

\* self.async_show_form(step_id=..., errors=...)
async_show_form(step_id, errors) ==
    [type |-> "form", step_id |-> step_id, errors |-> errors]

\* self.async_create_entry(title=..., data=..., options=...)
async_create_entry(data, options) ==
    [type |-> "create_entry", data |-> data, options |-> options]

\* self._abort_if_unique_id_configured() raises AbortFlow, an Exception, when
\* a config entry of the domain has the unique id of the flow
unique_id_configured(h, unique_id) ==
    \E i \in DOMAIN h.config_entries : h.config_entries[i].unique_id = unique_id

\* async_step_costs (159-172, 300-306); user_input is None or the options
async_step_costs(f, user_input) ==
    IF user_input # None
    THEN [flow |-> f,
          result |-> async_create_entry(EntryData(f._source_entity_id, f._source_type),
                                        user_input)]
    ELSE [flow |-> f, result |-> async_show_form("costs", NoErrors)]

\* async_step_user (115-157); user_input is None or {source_entity_id: ...}
async_step_user(f, h, user_input) ==
    IF user_input = None
    THEN [flow |-> f, result |-> async_show_form("user", NoErrors)]
    ELSE LET entity_id == user_input[CONF_SOURCE_ENTITY]
             valid == _validate_source_sensor(h, entity_id)
         IN IF valid[1]
            THEN LET g == [f EXCEPT !._source_entity_id = entity_id,
                                    !._source_type = valid[2],
                                    !.unique_id = entity_id]
                 IN IF unique_id_configured(h, entity_id)
                    THEN [flow |-> g,
                          result |-> async_show_form("user", [base |-> "unknown_error"])]
                    ELSE async_step_costs(g, None)
            ELSE [flow |-> f, result |-> async_show_form("user", [base |-> valid[2]])]

\* the flow manager takes the result of a step: a form makes its step the
\* current one, a created entry is added to the config entries under the
\* unique id of the flow and ends the flow
FlowAfter(f, result) ==
    [f EXCEPT !.cur_step = IF result.type = "form" THEN result.step_id ELSE "done"]

EntriesAfter(h, f, result) ==
    IF result.type = "create_entry"
    THEN [h EXCEPT !.config_entries =
             Append(@, ConfigEntry(f.unique_id, result.data, result.options))]
    ELSE h

----------------------------------------------------------------------------
(* The update coordinator (__init__.py 97-186) and the number entities     *)
(* (number.py 58-126)                                                      *)

\* EcopowerCostNumber.__init__ (number.py 63-88); added tells whether the
\* entity has been added to Home Assistant (async_added_to_hass has run)
EcopowerCostNumber(param_key, initial_value) ==
    [kind |-> "EcopowerCostNumber", _param_key |-> param_key,
     _attr_native_value |-> initial_value, added |-> FALSE]

\* NumberEntity.native_value
native_value(entity) == entity._attr_native_value

\* EcopowerDataUpdateCoordinator.__init__ (100-118).  _number_entities maps a
\* parameter key to the entity registered for it, an entity being referred to
\* by its key in the entities.  last_update_success and refresh_requested are
\* kept by DataUpdateCoordinator: whether the last cycle returned data, and
\* whether a refresh asked for by async_request_refresh is still to run.
EcopowerDataUpdateCoordinator(config_entry, source_entity_id, parser) ==
    [kind |-> "coordinator", config_entry |-> config_entry,
     source_entity_id |-> source_entity_id, parser |-> parser,
     _number_entities |-> NoEntities,
     last_update_success |-> TRUE, refresh_requested |-> FALSE]

\* register_number_entity (120-122)
register_number_entity(c, param_key, entity) ==
    [c EXCEPT !._number_entities =
        [k \in DOMAIN @ \cup {param_key} |-> IF k = param_key THEN entity ELSE @[k]]]

\* coordinator.async_request_refresh()
async_request_refresh(c) == [c EXCEPT !.refresh_requested = TRUE]

\* a mutant: the registered entities are never looked at
entity_value_ignored(c, ents, param_key) == FALSE

\* whether line 132 finds a value in the entity registered for param_key
EntityValue(c, ents, param_key) ==
    /\ param_key \in DOMAIN c._number_entities
    /\ native_value(ents[c._number_entities[param_key]]) # None

\* a mutant: the config options are looked up before the number entity
get_cost_parameters_options_first(c, options, ents) ==
    LET keys == { NUMBER_ENTITIES[i].key : i \in DOMAIN NUMBER_ENTITIES }
    IN CostParameters_from_dict(
          [k \in { k \in keys : EntityValue(c, ents, k) \/ k \in DOMAIN options } |->
              IF k \in DOMAIN options THEN options[k]
              ELSE native_value(ents[c._number_entities[k]])])

\* _get_cost_parameters (124-140); options is self.config_entry.options
_get_cost_parameters(c, options, ents) ==
    LET keys == { NUMBER_ENTITIES[i].key : i \in DOMAIN NUMBER_ENTITIES }
    IN CostParameters_from_dict(
          [k \in { k \in keys : EntityValue(c, ents, k) \/ k \in DOMAIN options } |->
              IF EntityValue(c, ents, k)
              THEN native_value(ents[c._number_entities[k]])
              ELSE options[k]])

\* a mutant: the parser is selected anew from the shape of the attributes,
\* the parser of the coordinator being used when no shape is detected
parse_prices_by_shape(parser, attrs, t) ==
    IF get_parser_for_attributes(attrs) = None
    THEN IF parser.name = "EpexSpotParser" THEN EpexSpotParser_parse_prices(attrs, t)
         ELSE EnergiDataServiceParser_parse_prices(attrs, t)
    ELSE IF get_parser_for_attributes(attrs).name = "EpexSpotParser"
    THEN EpexSpotParser_parse_prices(attrs, t)
    ELSE EnergiDataServiceParser_parse_prices(attrs, t)

\* self.parser.parse_prices(attributes)
parse_prices(parser, attrs, t) ==
    IF parser.name = "EpexSpotParser" THEN EpexSpotParser_parse_prices(attrs, t)
    ELSE EnergiDataServiceParser_parse_prices(attrs, t)

\* the dict returned by _async_update_data (171-174)
PriceData(consumption_data, injection_data) ==
    [kind |-> "data", consumption |-> consumption_data, injection |-> injection_data]

\* lines 169-174: the tuple returned by calculate_all_prices, unpacked
PriceDataOf(prices) == PriceData(prices.items[1], prices.items[2])

\* a mutant: the injection set is computed with parameters read anew, which
\* are the defaults by then
calculate_and_return_injection_reread(parsed, cp) ==
    IF \E f \in DOMAIN cp : cp[f] = None THEN RaisedOut("TypeError")
    ELSE PriceData(calculate_all_prices(parsed, Floats(cp)).items[1],
                   calculate_all_prices(parsed,
                      Floats(CostParameters_from_dict(<<>>))).items[2])

\* lines 165-174: an arithmetic operation on a parameter that is None raises
\* TypeError, and with a today bucket that is not empty every parameter is used
CalculateAndReturn(parsed, cp) ==
    IF \E f \in DOMAIN cp : cp[f] = None THEN RaisedOut("TypeError")
    ELSE PriceDataOf(calculate_all_prices(parsed, Floats(cp)))

\* lines 159-174, from the outcome of the parser on
AfterParse(parsed, c, options, ents) ==
    IF parsed.kind = "raise" THEN RaisedOut("UpdateFailed")
    ELSE IF parsed.today = <<>> THEN RaisedOut("UpdateFailed")
    ELSE CalculateAndReturn(parsed, _get_cost_parameters(c, options, ents))

\* lines 156-174, from the attributes on
ParseAndCalculate(c, attrs, options, ents, t) ==
    AfterParse(parse_prices(c.parser, attrs, t), c, options, ents)

\* a mutant: a cycle that follows a failed cycle fails as well
update_data_failure_latched(c, h, ents, t) ==
    LET source_state == states_get(h, c.source_entity_id) IN
    IF ~c.last_update_success THEN RaisedOut("UpdateFailed")
    ELSE IF source_state = None THEN RaisedOut("UpdateFailed")
    ELSE IF ~Truthy(source_state.attributes) THEN RaisedOut("UpdateFailed")
    ELSE ParseAndCalculate(c, source_state.attributes,
                           h.config_entries[c.config_entry].options, ents, t)

\* a mutant: the check of line 162 is left out
after_parse_empty_today_published(parsed, c, options, ents) ==
    IF parsed.kind = "raise" THEN RaisedOut("UpdateFailed")
    ELSE CalculateAndReturn(parsed, _get_cost_parameters(c, options, ents))

\* a mutant: data is published although the today bucket is empty
update_data_empty_today_published(c, h, ents, t) ==
    LET source_state == states_get(h, c.source_entity_id) IN
    IF source_state = None THEN RaisedOut("UpdateFailed")
    ELSE IF ~Truthy(source_state.attributes) THEN RaisedOut("UpdateFailed")
    ELSE after_parse_empty_today_published(
            parse_prices(c.parser, source_state.attributes, t), c,
            h.config_entries[c.config_entry].options, ents)

\* _async_update_data (142-174) at the instant t
_async_update_data(c, h, ents, t) ==
    LET source_state == states_get(h, c.source_entity_id) IN
    IF source_state = None THEN RaisedOut("UpdateFailed")
    ELSE IF ~Truthy(source_state.attributes) THEN RaisedOut("UpdateFailed")
    ELSE ParseAndCalculate(c, source_state.attributes,
                           h.config_entries[c.config_entry].options, ents, t)

\* DataUpdateCoordinator takes the outcome of a cycle: the refresh asked for
\* has run, and last_update_success tells whether data was returned
CoordinatorAfter(c, result) ==
    [c EXCEPT !.last_update_success = (result.kind = "data"),
              !.refresh_requested = FALSE]

\* async_setup_entry (__init__.py 36-63), up to the await of line 66: the
\* coordinator is made and fetches for the first time;
\* async_config_entry_first_refresh raises ConfigEntryNotReady when that
\* cycle fails, and the coordinator is then never stored
FirstRefreshOutcome(c, result) ==
    IF result.kind = "data"
    THEN [coordinator |-> CoordinatorAfter(c, result), result |-> result]
    ELSE [coordinator |-> None, result |-> RaisedOut("ConfigEntryNotReady")]

FirstRefresh(c, h, ents, t) ==
    FirstRefreshOutcome(c, _async_update_data(c, h, ents, t))

async_setup_entry(h, entry_id, ents, t) ==
    LET entry == h.config_entries[entry_id]
        source_entity_id == entry.data[CONF_SOURCE_ENTITY]
        source_type == entry.data[CONF_SOURCE_TYPE]
        parser == get_parser_by_type(source_type)
    IN IF states_get(h, source_entity_id) = None
       THEN [coordinator |-> None, result |-> RaisedOut("ConfigEntryNotReady")]
       ELSE IF parser = None
       THEN [coordinator |-> None, result |-> RaisedOut("ConfigEntryNotReady")]
       ELSE FirstRefresh(EcopowerDataUpdateCoordinator(entry_id, source_entity_id, parser),
                         h, ents, t)

\* number.async_setup_entry (number.py 22-55): the entities made (30-49)
NumberEntities(options) ==
    [k \in { NUMBER_ENTITIES[i].key : i \in DOMAIN NUMBER_ENTITIES } |->
        EcopowerCostNumber(k,
            dict_get(options, k,
                     NUMBER_ENTITIES[CHOOSE i \in DOMAIN NUMBER_ENTITIES :
                                        NUMBER_ENTITIES[i].key = k].default))]

\* number.py 54-55: the first n entities registered in the coordinator
RECURSIVE RegisterEntities(_, _)
RegisterEntities(c, n) ==
    IF n = 0 THEN c
    ELSE register_number_entity(RegisterEntities(c, n - 1),
                                NUMBER_ENTITIES[n].key, NUMBER_ENTITIES[n].key)

\* EcopowerCostNumber.async_added_to_hass (number.py 105-116)
async_added_to_hass(entity, last_number_data) ==
    IF last_number_data # None /\ last_number_data.native_value # None
    THEN [entity EXCEPT !._attr_native_value = last_number_data.native_value,
                        !.added = TRUE]
    ELSE [entity EXCEPT !.added = TRUE]

\* a mutant: the value is stored but no refresh is asked for
set_native_value_without_refresh(c) == c

\* EcopowerCostNumber.async_set_native_value (number.py 118-126): the
\* coordinator after line 126
set_native_value_refresh(c) == async_request_refresh(c)

----------------------------------------------------------------------------
(* Inputs of the key resolver *)

\* nothing is handed to the calculations
NoCalculation ==
    /\ market_price = None
    /\ params = None
    /\ parsed_data = None
    /\ tie_up = FALSE

\* no config flow is in progress and no config entry is set up
NoIntegration ==
    /\ hass = [states |-> NoStates, config_entries |-> <<>>]
    /\ flow = None
    /\ coordinator = None
    /\ entities = NoEntities
    /\ event = None
    /\ set_calls = {}

KeyUniverse ==
    { StrKey(s_raw_today), StrKey(s_Raw_today), StrKey(s_RAW_TODAY),
      StrKey(s_data), StrKey(s_Data), NonStrKey }

CandUniverse == { s_raw_today, s_Raw_today, s_data, s_price }

Range(q) == { q[i] : i \in DOMAIN q }

\* sequences without repetition over S, of length n
RECURSIVE DistinctSeqs(_, _)
DistinctSeqs(S, n) ==
    IF n = 0 THEN {<<>>}
    ELSE UNION { { Append(q, x) : x \in S \ Range(q) } : q \in DistinctSeqs(S, n - 1) }

\* sequences over S of length n
RECURSIVE SeqsOfLen(_, _)
SeqsOfLen(S, n) ==
    IF n = 0 THEN {<<>>}
    ELSE { Append(q, x) : q \in SeqsOfLen(S, n - 1), x \in S }

\* the mappings handed to _find_key: up to MaxKeys distinct keys, in any order
KeyMappings ==
    { Dict([i \in DOMAIN q |-> Item(q[i], None)]) :
        q \in UNION { DistinctSeqs(KeyUniverse, n) : n \in 0..MaxKeys } }

CandLists == UNION { SeqsOfLen(CandUniverse, n) : n \in 1..MaxCands }

NoNow == [aware |-> TRUE, local |-> 0, off |-> 0]

InitKeys ==
    /\ attributes \in KeyMappings
    /\ possible_keys \in CandLists
    /\ now = NoNow
    /\ NoCalculation
    /\ NoIntegration
    /\ call = "none"
    /\ ret = None

\* _find_key(attributes, *possible_keys)
FindKey ==
    /\ call' = "_find_key"
    /\ ret' = _find_key(attributes, possible_keys)
    /\ UNCHANGED <<attributes, possible_keys, now, market_price, params, parsed_data, tie_up,
                   hass, flow, coordinator, entities, event, set_calls>>

NextKeys == FindKey

SpecKeys == InitKeys /\ [][NextKeys]_vars

----------------------------------------------------------------------------
(* Inputs of the shape analyzer *)

\* a dict whose keys are the names in q, in that order
DictOfKeys(q) == Dict([i \in DOMAIN q |-> Item(StrKey(q[i]), None)])

ShapeFirstEntries ==
    { DictOfKeys(<<s_Start_time, s_End_Time, s_price_per_kwh>>),
      DictOfKeys(<<s_start_time, s_end_time, s_price>>),
      DictOfKeys(<<s_start_time, s_price>>),
      DictOfKeys(<<s_hour, s_price>>),
      Num(1) }

ShapeValues ==
    { List(<<e>>) : e \in ShapeFirstEntries }
    \cup { Tuple(<<DictOfKeys(<<s_Hour, s_Price>>)>>), List(<<>>), None }

ShapeTopKeys ==
    { StrKey(s_data), StrKey(s_Data), StrKey(s_raw_today), StrKey(s_Raw_today),
      StrKey(s_foo) }

\* the dict with the keys q and the values v, item by item
DictOf(q, v) == Dict([i \in DOMAIN q |-> Item(q[i], v[i])])

InitShape ==
    /\ \E n \in 0..MaxAttrs :
          \E q \in DistinctSeqs(ShapeTopKeys, n), v \in SeqsOfLen(ShapeValues, n) :
             attributes = DictOf(q, v)
    /\ possible_keys = <<>>
    /\ now = NoNow
    /\ NoCalculation
    /\ NoIntegration
    /\ call = "none"
    /\ ret = None

\* analyze_sensor_shape(attributes)
AnalyzeSensorShape ==
    /\ call' = "analyze_sensor_shape"
    /\ ret' = analyze_sensor_shape(attributes)
    /\ UNCHANGED <<attributes, possible_keys, now, market_price, params, parsed_data, tie_up,
                   hass, flow, coordinator, entities, event, set_calls>>

\* get_parser_for_attributes(attributes)
GetParserForAttributes ==
    /\ call' = "get_parser_for_attributes"
    /\ ret' = get_parser_for_attributes(attributes)
    /\ UNCHANGED <<attributes, possible_keys, now, market_price, params, parsed_data, tie_up,
                   hass, flow, coordinator, entities, event, set_calls>>

NextShape == AnalyzeSensorShape \/ GetParserForAttributes

SpecShape == InitShape /\ [][NextShape]_vars

----------------------------------------------------------------------------
(* The shape analyzer on a sensor whose arrays change after their first    *)
(* entry: the sensor publishes a new state between two analyses            *)

ShapeElements ==
    { DictOfKeys(<<s_Start_time, s_End_Time, s_price_per_kwh>>),
      DictOfKeys(<<s_hour, s_price>>),
      DictOfKeys(<<s_start_time, s_price>>),
      Num(1) }

ShapeArrays ==
    { List(q) : q \in UNION { SeqsOfLen(ShapeElements, n) : n \in 1..MaxShapeLen } }

InitFirst ==
    /\ \E n \in 1..2 :
          \E q \in DistinctSeqs({StrKey(s_data), StrKey(s_raw_today)}, n),
             v \in SeqsOfLen(ShapeArrays, n) :
             attributes = DictOf(q, v)
    /\ possible_keys = <<>>
    /\ now = NoNow
    /\ NoCalculation
    /\ NoIntegration
    /\ call = "none"
    /\ ret = None

\* the sensor replaces one entry other than the first of one of its arrays
NonFirstElementChanged ==
    /\ \E i \in DOMAIN attributes.items :
          \E n \in 2..Len(attributes.items[i].v.items) :
             \E e \in ShapeElements \ {attributes.items[i].v.items[n]} :
                attributes' =
                    [attributes EXCEPT !.items[i].v.items[n] = e]
    /\ UNCHANGED <<possible_keys, now, market_price, params, parsed_data, tie_up,
                   hass, flow, coordinator, entities, event, set_calls, call, ret>>

NextFirst == AnalyzeSensorShape \/ NonFirstElementChanged

SpecFirst == InitFirst /\ [][NextFirst]_vars

----------------------------------------------------------------------------
(* Inputs of the parsers.  The current day is day 1: 00:00 today is the     *)
(* reading 48, 00:30 is 49, 01:00 is 50, 23:30 yesterday is 47 and 00:00    *)
(* tomorrow is 96.  The sensors and the clock are at UTC+01:00.             *)

Tz == Hour

At(local) == IsoStr(Aware(local, Tz))

EpexEntryOf(start_time, end_time, price) ==
    Dict(<<Item(StrKey(s_start_time), start_time), Item(StrKey(s_end_time), end_time),
           Item(StrKey(s_price_per_kwh), price)>>)

EpexEntries ==
    { EpexEntryOf(At(48), At(49), Num(1)),
      EpexEntryOf(At(49), At(50), NumStr(2)),
      Dict(<<Item(StrKey(s_Start_time), DateTimeValue(Aware(48, Tz))),
             Item(StrKey(s_End_Time), At(50)), Item(StrKey(s_price), Num(3))>>),
      EpexEntryOf(At(47), At(50), Num(4)),
      EpexEntryOf(At(96), At(97), Num(5)),
      EpexEntryOf(At(50), At(48), Num(6)),
      EpexEntryOf(IsoStr(Naive(48)), IsoStr(Naive(50)), Num(7)),
      EpexEntryOf(BadStr, At(50), Num(8)),
      Dict(<<Item(StrKey(s_start_time), At(48)), Item(StrKey(s_price), Num(9))>>),
      EpexEntryOf(At(48), At(50), None),
      None }

HourlyEntryOf(hour, price) ==
    Dict(<<Item(StrKey(s_hour), hour), Item(StrKey(s_price), price)>>)

TodayEntries ==
    { HourlyEntryOf(At(48), Num(1)),
      Dict(<<Item(StrKey(s_Hour), DateTimeValue(Aware(49, Tz))),
             Item(StrKey(s_Price), Num(2))>>),
      HourlyEntryOf(At(50), NumStr(3)),
      HourlyEntryOf(BadStr, Num(4)),
      Dict(<<Item(StrKey(s_price), Num(5))>>),
      HourlyEntryOf(IsoStr(Naive(48)), Num(6)),
      HourlyEntryOf(At(49), None) }

TomorrowEntries ==
    { HourlyEntryOf(At(96), Num(1)),
      HourlyEntryOf(At(97), Num(2)),
      HourlyEntryOf(At(49), Num(3)),
      HourlyEntryOf(BadStr, Num(4)) }

Nows == { Aware(48, Tz), Aware(49, Tz) }

EpexAttributes(data) == Dict(<<Item(StrKey(s_data), List(data))>>)

HourlyAttributes(raw_today, raw_tomorrow) ==
    Dict(<<Item(StrKey(s_raw_today), List(raw_today)),
           Item(StrKey(s_raw_tomorrow), List(raw_tomorrow)),
           Item(StrKey(s_tomorrow_valid), Bool(TRUE))>>)

InitParse ==
    /\ \/ \E n \in 0..MaxData : \E data \in SeqsOfLen(EpexEntries, n) :
             attributes = EpexAttributes(data)
       \/ \E n \in 0..MaxToday, m \in 0..MaxTomorrow :
             \E raw_today \in SeqsOfLen(TodayEntries, n),
                raw_tomorrow \in SeqsOfLen(TomorrowEntries, m) :
                attributes = HourlyAttributes(raw_today, raw_tomorrow)
    /\ now \in Nows
    /\ possible_keys = <<>>
    /\ NoCalculation
    /\ NoIntegration
    /\ call = "none"
    /\ ret = None

\* EpexSpotParser().parse_prices(attributes)
EpexParsePrices ==
    /\ call' = "EpexSpotParser.parse_prices"
    /\ ret' = EpexSpotParser_parse_prices(attributes, now)
    /\ UNCHANGED <<attributes, possible_keys, now, market_price, params, parsed_data, tie_up,
                   hass, flow, coordinator, entities, event, set_calls>>

\* EnergiDataServiceParser().parse_prices(attributes)
EnergiParsePrices ==
    /\ call' = "EnergiDataServiceParser.parse_prices"
    /\ ret' = EnergiDataServiceParser_parse_prices(attributes, now)
    /\ UNCHANGED <<attributes, possible_keys, now, market_price, params, parsed_data, tie_up,
                   hass, flow, coordinator, entities, event, set_calls>>

NextParse == EpexParsePrices \/ EnergiParsePrices

SpecParse == InitParse /\ [][NextParse]_vars

----------------------------------------------------------------------------
(* Inputs of the hourly parser for the 'tomorrow_valid' field: sensors with *)
(* an empty raw_today, any raw_tomorrow, and the field absent or holding a  *)
(* bool, None, a number or a str.                                           *)

TomorrowValidValues == { Bool(TRUE), Bool(FALSE), None, Num(0), Num(1), BadStr }

TomorrowValidFields ==
    { <<>> } \cup { <<Item(StrKey(s_tomorrow_valid), v)>> : v \in TomorrowValidValues }

InitValid ==
    /\ \E m \in 0..MaxTomorrow :
          \E raw_tomorrow \in SeqsOfLen(TomorrowEntries, m), fields \in TomorrowValidFields :
             attributes = Dict(<<Item(StrKey(s_raw_today), List(<<>>)),
                                 Item(StrKey(s_raw_tomorrow), List(raw_tomorrow))>>
                               \o fields)
    /\ now \in Nows
    /\ possible_keys = <<>>
    /\ NoCalculation
    /\ NoIntegration
    /\ call = "none"
    /\ ret = None

NextValid == EnergiParsePrices

SpecValid == InitValid /\ [][NextValid]_vars

----------------------------------------------------------------------------
(* The parsers called at successive instants: dt_util.now() is read inside  *)
(* parse_prices (parsers.py 241, 340), and the clock advances between calls *)

InitClock ==
    /\ \/ \E n \in 0..MaxClockData : \E data \in SeqsOfLen(EpexEntries, n) :
             attributes = EpexAttributes(data)
       \/ \E n \in 0..MaxClockData, m \in 0..MaxClockData :
             \E raw_today \in SeqsOfLen(TodayEntries, n),
                raw_tomorrow \in SeqsOfLen(TomorrowEntries, m) :
                attributes = HourlyAttributes(raw_today, raw_tomorrow)
    /\ now = Aware(Day, Tz)
    /\ possible_keys = <<>>
    /\ NoCalculation
    /\ NoIntegration
    /\ call = "none"
    /\ ret = None

\* half an hour passes
Tick ==
    /\ now.local < Day + MaxTicks
    /\ now' = DtAdd(now, 1)
    /\ UNCHANGED <<attributes, possible_keys, market_price, params, parsed_data,
                   tie_up, hass, flow, coordinator, entities, event, set_calls, call, ret>>

NextClock == EpexParsePrices \/ EnergiParsePrices \/ Tick

SpecClock == InitClock /\ [][NextClock]_vars

----------------------------------------------------------------------------
(* Inputs of the calculations *)

\* market prices: multiples of 0.0025 EUR around zero, 0.0853 and 0.10 EUR
MarketPrices == { 25 * k : k \in (0 - MaxPrice)..MaxPrice } \cup { 853, 1000 }

\* the defaults, the defaults with 21 % VAT and no injection deduction, and
\* parameters in which every field differs from every other
ParameterSets ==
    { CostParameters,
      [CostParameters EXCEPT !.vat_rate = 21, !.injection_deduction = 0],
      [consumption_multiplier |-> 100, supplier_cost |-> 1,
       injection_multiplier |-> 95, injection_deduction |-> 7,
       green_certificates |-> 2, chp_certificates |-> 4,
       distribution_cost |-> 8, energy_contribution |-> 16,
       excise_tax |-> 32, vat_rate |-> 0] }

BucketPriceValues == { 25, 1000, 0 - 250 }

\* a bucket of the day that starts at first: one interval of an hour for
\* every price, in ascending order of start
BucketOf(first, prices) ==
    [i \in DOMAIN prices |->
        PriceEntry(Aware(first + Hour * (i - 1), Tz), Aware(first + Hour * i, Tz), prices[i])]

InitPrice ==
    /\ market_price \in MarketPrices
    /\ params \in ParameterSets
    /\ tie_up \in BOOLEAN
    /\ parsed_data = None
    /\ NoIntegration
    /\ attributes = None
    /\ possible_keys = <<>>
    /\ now = NoNow
    /\ call = "none"
    /\ ret = None

\* calculate_consumption_price(market_price, params)
CalculateConsumptionPrice ==
    /\ call' = "calculate_consumption_price"
    /\ ret' = Num(calculate_consumption_price(market_price, params))
    /\ UNCHANGED <<attributes, possible_keys, now, market_price, params, parsed_data, tie_up,
                   hass, flow, coordinator, entities, event, set_calls>>

\* calculate_injection_price(market_price, params)
CalculateInjectionPrice ==
    /\ call' = "calculate_injection_price"
    /\ ret' = Num(calculate_injection_price(market_price, params))
    /\ UNCHANGED <<attributes, possible_keys, now, market_price, params, parsed_data, tie_up,
                   hass, flow, coordinator, entities, event, set_calls>>

NextPrice == CalculateConsumptionPrice \/ CalculateInjectionPrice

SpecPrice == InitPrice /\ [][NextPrice]_vars

InitCalc ==
    /\ \E n \in 0..MaxCalcToday, m \in 0..MaxCalcTomorrow :
          \E today \in SeqsOfLen(BucketPriceValues, n),
             tomorrow \in SeqsOfLen(BucketPriceValues, m),
             current_price \in { None, Num(0), Num(1000) },
             tomorrow_valid \in { Bool(TRUE), Bool(FALSE) } :
             parsed_data = ParsedPriceData(BucketOf(Day, today), BucketOf(2 * Day, tomorrow),
                                           current_price, tomorrow_valid)
    /\ params \in ParameterSets
    /\ tie_up \in BOOLEAN
    /\ market_price = None
    /\ NoIntegration
    /\ attributes = None
    /\ possible_keys = <<>>
    /\ now = NoNow
    /\ call = "none"
    /\ ret = None

\* calculate_all_prices(parsed_data, params)
CalculateAllPrices ==
    /\ call' = "calculate_all_prices"
    /\ ret' = calculate_all_prices(parsed_data, params)
    /\ UNCHANGED <<attributes, possible_keys, now, market_price, params, parsed_data, tie_up,
                   hass, flow, coordinator, entities, event, set_calls>>

NextCalc == CalculateAllPrices

SpecCalc == InitCalc /\ [][NextCalc]_vars

----------------------------------------------------------------------------
(* Inputs of the config flow *)

SensorIds == { "sensor.a", "sensor.b" }

\* the options in which every parameter has its default, and options in
\* which every parameter has a value of its own
DefaultOptions ==
    [k \in { NUMBER_ENTITIES[i].key : i \in DOMAIN NUMBER_ENTITIES } |->
        NUMBER_ENTITIES[CHOOSE i \in DOMAIN NUMBER_ENTITIES : NUMBER_ENTITIES[i].key = k].default]

CustomOptions ==
    [consumption_multiplier |-> Num(100), supplier_cost |-> Num(1),
     injection_multiplier |-> Num(95), injection_deduction |-> Num(7),
     green_certificates |-> Num(2), chp_certificates |-> Num(4),
     distribution_cost |-> Num(8), energy_contribution |-> Num(16),
     excise_tax |-> Num(32), vat_rate |-> Num(10)]

NoOptions == [k \in {} |-> None]

\* a sensor of each shape, a sensor of no known shape and one without attributes
EpexSensor == EpexAttributes(<<EpexEntryOf(At(48), At(49), Num(1))>>)
HourlySensor ==
    HourlyAttributes(<<HourlyEntryOf(At(48), Num(2))>>, <<HourlyEntryOf(At(96), Num(3))>>)
UnknownSensor == Dict(<<Item(StrKey(s_foo), List(<<Num(1)>>))>>)
EmptySensor == Dict(<<>>)

FlowSensors == { EpexSensor, HourlySensor, UnknownSensor, EmptySensor }

InitFlow ==
    /\ \E ids \in SUBSET SensorIds : hass \in
          { [states |-> st, config_entries |-> ce] :
               st \in [ids -> FlowSensors],
               ce \in { <<>>,
                        <<ConfigEntry("sensor.a",
                                      EntryData("sensor.a", SOURCE_TYPE_EPEX_SPOT),
                                      DefaultOptions)>> } }
    /\ flow = ConfigFlow
    /\ coordinator = None
    /\ entities = NoEntities
    /\ event = None
    /\ set_calls = {}
    /\ NoCalculation
    /\ attributes = None
    /\ possible_keys = <<>>
    /\ now = Aware(Day, Tz)
    /\ call = "none"
    /\ ret = None

\* the flow manager calls async_step_user: without input when the flow is
\* started, with the sensor selected when the user form is submitted
AsyncStepUser ==
    /\ flow # None
    /\ flow.cur_step \in {"init", "user"}
    /\ \E user_input \in IF flow.cur_step = "init" THEN {None}
                         ELSE { [source_entity_id |-> e] : e \in SensorIds } :
          LET step == async_step_user(flow, hass, user_input) IN
             /\ flow' = FlowAfter(step.flow, step.result)
             /\ event' = user_input
             /\ ret' = step.result
    /\ call' = "async_step_user"
    /\ UNCHANGED <<attributes, possible_keys, now, market_price, params, parsed_data, tie_up,
                   hass, coordinator, entities, set_calls>>

\* the flow manager calls async_step_costs when the costs form is submitted
AsyncStepCosts ==
    /\ flow # None
    /\ flow.cur_step = "costs"
    /\ \E user_input \in { DefaultOptions, CustomOptions } :
          LET step == async_step_costs(flow, user_input) IN
             /\ flow' = FlowAfter(step.flow, step.result)
             /\ hass' = EntriesAfter(hass, step.flow, step.result)
             /\ event' = user_input
             /\ ret' = step.result
    /\ call' = "async_step_costs"
    /\ UNCHANGED <<attributes, possible_keys, now, market_price, params, parsed_data, tie_up,
                   coordinator, entities, set_calls>>

\* a sensor gets a new state, or its state is removed
SensorStateWritten ==
    /\ \E e \in SensorIds :
          \/ /\ e \in DOMAIN hass.states
             /\ hass' = [hass EXCEPT !.states = [x \in DOMAIN @ \ {e} |-> @[x]]]
          \/ \E attrs \in FlowSensors :
                /\ IF e \in DOMAIN hass.states THEN hass.states[e] # attrs ELSE TRUE
                /\ hass' = [hass EXCEPT !.states =
                               [x \in DOMAIN @ \cup {e} |-> IF x = e THEN attrs ELSE @[x]]]
    /\ event' = None
    /\ call' = "states.async_set"
    /\ ret' = None
    /\ UNCHANGED <<attributes, possible_keys, now, market_price, params, parsed_data, tie_up,
                   flow, coordinator, entities, set_calls>>

NextFlow == AsyncStepUser \/ AsyncStepCosts \/ SensorStateWritten

SpecFlow == InitFlow /\ [][NextFlow]_vars

----------------------------------------------------------------------------
(* Inputs of the coordinator: one config entry for the sensor sensor.a     *)

SourceId == "sensor.a"

\* an EPEX sensor whose only interval is of tomorrow, one whose only interval
\* began yesterday and holds the current instant, and a sensor whose arrays
\* are numbers
EpexTomorrowSensor == EpexAttributes(<<EpexEntryOf(At(96), At(97), Num(5))>>)
EpexCurrentSensor == EpexAttributes(<<EpexEntryOf(At(47), At(50), Num(4))>>)
BrokenSensor ==
    Dict(<<Item(StrKey(s_data), Num(1)), Item(StrKey(s_raw_today), Num(1))>>)

SourceSensors ==
    { EpexSensor, EpexTomorrowSensor, EpexCurrentSensor, HourlySensor,
      BrokenSensor, EmptySensor }

\* options that hold one parameter only
PartialOptions == [vat_rate |-> Num(21)]

\* the parameters whose number entities may have a value to restore, and the
\* value restored
FocusKeys == { CONF_VAT_RATE, CONF_INJECTION_DEDUCTION }
RestoredValue(k) == IF k = CONF_VAT_RATE THEN Num(20) ELSE Num(100)

\* the parameter whose number entity the user sets, and the values set
SetKeys == { CONF_VAT_RATE }
SetValues == { Num(12), Num(6) }

InitCoord ==
    /\ \E st \in { NoStates } \cup [{SourceId} -> SourceSensors],
          source_type \in { SOURCE_TYPE_EPEX_SPOT, SOURCE_TYPE_ENERGI_DATA_SERVICE },
          options \in { PartialOptions, CustomOptions } :
          hass = [states |-> st,
                  config_entries |->
                     <<ConfigEntry(SourceId, EntryData(SourceId, source_type), options)>>]
    /\ flow = None
    /\ coordinator = None
    /\ entities = NoEntities
    /\ event = None
    /\ set_calls = {}
    /\ NoCalculation
    /\ attributes = None
    /\ possible_keys = <<>>
    /\ now = Aware(Day, Tz)
    /\ call = "none"
    /\ ret = None

\* the platforms are set up, which ends when every entity has been added, and
\* the listeners of lines 69-78 are registered
SetUp ==
    /\ coordinator # None
    /\ DOMAIN entities # {}
    /\ \A k \in DOMAIN entities : entities[k].added

\* Home Assistant sets up the config entry: async_setup_entry up to line 63.
\* ret is what the first refresh fetched, or the exception raised, and event
\* holds the instant of the call.
AsyncSetupEntry ==
    /\ coordinator = None
    /\ hass.config_entries # <<>>
    /\ \E setup \in { async_setup_entry(hass, 1, entities, now) } :
          /\ coordinator' = setup.coordinator
          /\ ret' = setup.result
    /\ call' = "async_setup_entry"
    /\ event' = [now |-> now]
    /\ UNCHANGED <<attributes, possible_keys, now, market_price, params, parsed_data, tie_up,
                   hass, flow, entities, set_calls>>

\* line 66 forwards the setup to the number platform: number.async_setup_entry
NumberAsyncSetupEntry ==
    /\ coordinator # None
    /\ DOMAIN entities = {}
    /\ entities' = NumberEntities(hass.config_entries[coordinator.config_entry].options)
    /\ coordinator' = RegisterEntities(coordinator, Len(NUMBER_ENTITIES))
    /\ call' = "number.async_setup_entry"
    /\ event' = None
    /\ ret' = None
    /\ UNCHANGED <<attributes, possible_keys, now, market_price, params, parsed_data, tie_up,
                   hass, flow, set_calls>>

\* Home Assistant adds the entities one after the other, in the order of the
\* list handed to async_add_entities: async_added_to_hass of the next one,
\* with the number data stored for it, if any
AsyncAddedToHass ==
    /\ \E i \in DOMAIN NUMBER_ENTITIES :
          LET k == NUMBER_ENTITIES[i].key IN
             /\ k \in DOMAIN entities
             /\ ~entities[k].added
             /\ \A h \in 1..(i - 1) : entities[NUMBER_ENTITIES[h].key].added
             /\ \E last_number_data \in
                   IF k \in FocusKeys
                   THEN { None, [native_value |-> None], [native_value |-> RestoredValue(k)] }
                   ELSE { None } :
                   /\ entities' = [entities EXCEPT
                                     ![k] = async_added_to_hass(@, last_number_data)]
                   /\ event' = [param_key |-> k, last_number_data |-> last_number_data]
    /\ call' = "async_added_to_hass"
    /\ ret' = None
    /\ UNCHANGED <<attributes, possible_keys, now, market_price, params, parsed_data, tie_up,
                   hass, flow, coordinator, set_calls>>

\* the user sets a number entity: async_set_native_value(value)
AsyncSetNativeValue ==
    /\ coordinator # None
    /\ \E k \in SetKeys, value \in SetValues :
          /\ k \in DOMAIN entities
          /\ entities[k].added
          /\ entities' = [entities EXCEPT ![k]._attr_native_value = value]
          /\ event' = [param_key |-> k, value |-> value]
          /\ set_calls' = set_calls \cup { [param_key |-> k, value |-> value] }
    /\ coordinator' = set_native_value_refresh(coordinator)
    /\ call' = "async_set_native_value"
    /\ ret' = None
    /\ UNCHANGED <<attributes, possible_keys, now, market_price, params, parsed_data, tie_up,
                   hass, flow>>

\* the options flow stores new options (config_flow.py 324-329) and the update
\* listener of line 78 is called: async_options_updated (91-94)
AsyncOptionsUpdated ==
    /\ SetUp
    /\ \E options \in { DefaultOptions, CustomOptions } :
          /\ options # hass.config_entries[coordinator.config_entry].options
          /\ hass' = [hass EXCEPT !.config_entries[coordinator.config_entry].options = options]
          /\ event' = [options |-> options]
    /\ coordinator' = async_request_refresh(coordinator)
    /\ call' = "async_options_updated"
    /\ ret' = None
    /\ UNCHANGED <<attributes, possible_keys, now, market_price, params, parsed_data, tie_up,
                   flow, entities, set_calls>>

\* the source sensor gets a new state or is removed while nobody listens
SourceStateWritten ==
    /\ ~SetUp
    /\ flow = None
    /\ \E st \in { NoStates } \cup [{SourceId} -> SourceSensors] :
          /\ st # hass.states
          /\ hass' = [hass EXCEPT !.states = st]
    /\ event' = None
    /\ call' = "states.async_set"
    /\ ret' = None
    /\ UNCHANGED <<attributes, possible_keys, now, market_price, params, parsed_data, tie_up,
                   flow, coordinator, entities, set_calls>>

\* the source sensor gets a new state or is removed, and the listener of line
\* 70 is called: async_source_state_changed (176-186)
AsyncSourceStateChanged ==
    /\ SetUp
    /\ \E st \in { NoStates } \cup [{SourceId} -> SourceSensors] :
          /\ st # hass.states
          /\ hass' = [hass EXCEPT !.states = st]
          /\ LET new_state == IF SourceId \in DOMAIN st THEN State(st[SourceId]) ELSE None IN
                /\ event' = [new_state |-> new_state]
                /\ coordinator' = IF new_state = None THEN coordinator
                                  ELSE async_request_refresh(coordinator)
    /\ call' = "async_source_state_changed"
    /\ ret' = None
    /\ UNCHANGED <<attributes, possible_keys, now, market_price, params, parsed_data, tie_up,
                   flow, entities, set_calls>>

\* a refresh cycle, started by the timer or by a refresh asked for:
\* _async_update_data, and what DataUpdateCoordinator keeps of its outcome;
\* event holds the instant of the cycle, whether the cycle before it returned
\* data, and the calls of async_set_native_value made since that cycle
AsyncUpdateData ==
    /\ coordinator # None
    /\ \E result \in { _async_update_data(coordinator, hass, entities, now) } :
          /\ ret' = result
          /\ coordinator' = CoordinatorAfter(coordinator, result)
    /\ set_calls' = {}
    /\ call' = "_async_update_data"
    /\ event' = [now |-> now, last_update_success |-> coordinator.last_update_success,
                 set_calls |-> set_calls]
    /\ UNCHANGED <<attributes, possible_keys, now, market_price, params, parsed_data, tie_up,
                   hass, flow, entities>>

NextCoord ==
    \/ AsyncSetupEntry
    \/ NumberAsyncSetupEntry
    \/ AsyncAddedToHass
    \/ AsyncSetNativeValue
    \/ AsyncOptionsUpdated
    \/ SourceStateWritten
    \/ AsyncSourceStateChanged
    \/ AsyncUpdateData
    \/ Tick

SpecCoord == InitCoord /\ [][NextCoord]_vars



----------------------------------------------------------------------------
(* Claims about the key resolver *)

CiMatch(k, c) == k.isstr /\ lower(k.chars) = lower(c)
SpMatch(k, c) == k.isstr /\ replace_space(lower(k.chars)) = lower(c)
AnyMatch(k, c) == CiMatch(k, c) \/ SpMatch(k, c)
AttrKeys == Keys(attributes)
IsAttrKey(k) == \E i \in DOMAIN AttrKeys : AttrKeys[i] = k
CandHit(j) ==
    \/ Contains(attributes, possible_keys[j])
    \/ \E i \in DOMAIN AttrKeys : AnyMatch(AttrKeys[i], possible_keys[j])

\* C3 as stated: _find_key returns a verbatim candidate whenever any candidate
\* is present verbatim; else a key matching some candidate case-insensitively
\* when one exists; else a key matching after spaces are turned into
\* underscores; else None.
C3_VerbatimThenCaseThenSpace ==
    call = "_find_key" =>
        LET verb == \E j \in DOMAIN possible_keys : Contains(attributes, possible_keys[j])
            ci == \E i \in DOMAIN AttrKeys, j \in DOMAIN possible_keys :
                      CiMatch(AttrKeys[i], possible_keys[j])
            sp == \E i \in DOMAIN AttrKeys, j \in DOMAIN possible_keys :
                      SpMatch(AttrKeys[i], possible_keys[j])
        IN /\ verb => /\ ret # None
                      /\ IsAttrKey(ret)
                      /\ \E j \in DOMAIN possible_keys : ret = StrKey(possible_keys[j])
           /\ (~verb /\ ci) => /\ ret # None
                               /\ IsAttrKey(ret)
                               /\ \E j \in DOMAIN possible_keys : CiMatch(ret, possible_keys[j])
           /\ (~verb /\ ~ci /\ sp) => /\ ret # None
                                      /\ IsAttrKey(ret)
                                      /\ \E j \in DOMAIN possible_keys : SpMatch(ret, possible_keys[j])
           /\ (~verb /\ ~ci /\ ~sp) => ret = None

\* C3 amended: the candidates are tried one after the other; for the first
\* candidate that any key matches, _find_key returns that candidate when it is
\* present verbatim, and otherwise the first key in the mapping's order that
\* equals it case-insensitively or after its spaces are turned into
\* underscores; it returns None when no candidate is matched.
C3_PerCandidateOrder ==
    call = "_find_key" =>
        IF ~\E j \in DOMAIN possible_keys : CandHit(j) THEN ret = None
        ELSE LET j == CHOOSE j \in DOMAIN possible_keys :
                          CandHit(j) /\ \A h \in 1..(j - 1) : ~CandHit(h)
             IN IF Contains(attributes, possible_keys[j])
                THEN ret = StrKey(possible_keys[j])
                ELSE \E i \in DOMAIN AttrKeys :
                        /\ ret = AttrKeys[i]
                        /\ AnyMatch(AttrKeys[i], possible_keys[j])
                        /\ \A h \in 1..(i - 1) : ~AnyMatch(AttrKeys[h], possible_keys[j])

\* C3 witness: a later candidate is present verbatim, yet the key returned is
\* a tolerant match of an earlier candidate.
C3_Witness ==
    /\ call = "_find_key"
    /\ ret # None
    /\ \E j \in DOMAIN possible_keys : Contains(attributes, possible_keys[j])
    /\ \A j \in DOMAIN possible_keys : ret # StrKey(possible_keys[j])

----------------------------------------------------------------------------
(* Claims about the shape analyzer *)

\* the first element of the array value conforms: it is a mapping in which
\* every name of some alternative resolves
Conforms(value, alternatives) ==
    /\ value.kind \in {"list", "tuple"}
    /\ Len(value.items) > 0
    /\ value.items[1].kind = "dict"
    /\ \E a \in alternatives :
          \A i \in DOMAIN a :
             \E h \in DOMAIN value.items[1].items :
                AnyMatch(value.items[1].items[h].k, a[i])

EpexAlternatives == { <<s_start_time, s_end_time, s_price_per_kwh>>,
                      <<s_start_time, s_end_time, s_price>> }
HourlyAlternatives == { <<s_hour, s_price>> }

ValidData ==
    Contains(attributes, s_data)
    /\ Conforms(GetItem(attributes, StrKey(s_data)), EpexAlternatives)
ValidRawToday ==
    Contains(attributes, s_raw_today)
    /\ Conforms(GetItem(attributes, StrKey(s_raw_today)), HourlyAlternatives)

\* C1: attributes holding both a valid 'data' array and a valid 'raw_today'
\* array classify as EPEX-like, and the parser chosen for them is the EPEX
\* parser, never the hourly one.
C1_ShapePriority ==
    (ValidData /\ ValidRawToday) =>
        /\ call = "analyze_sensor_shape" => ret.detected_type = SOURCE_TYPE_EPEX_SPOT
        /\ call = "get_parser_for_attributes" =>
              ret = Parser("EpexSpotParser", SOURCE_TYPE_EPEX_SPOT)

\* C1 witness: both arrays are valid and the parser has been looked up
C1_Witness ==
    /\ ValidData /\ ValidRawToday
    /\ call = "get_parser_for_attributes"
    /\ ret # None

\* the array field is resolvable by tolerant matching only, and conforms
TolerantOnly(name, alternatives) ==
    /\ ~Contains(attributes, name)
    /\ _find_key(attributes, <<name>>) # None
    /\ Conforms(GetItem(attributes, _find_key(attributes, <<name>>)), alternatives)

\* C2: when 'data' (resp. 'raw_today') is resolvable only by case-insensitive
\* or space-as-underscore matching and its array conforms, the classification
\* is EPEX-like (resp. hourly-like, no valid 'data' array being present).
C2_TopLevelKeyResolved ==
    call = "analyze_sensor_shape" =>
        /\ TolerantOnly(s_data, EpexAlternatives)
              => ret.detected_type = SOURCE_TYPE_EPEX_SPOT
        /\ (TolerantOnly(s_raw_today, HourlyAlternatives)
            /\ _find_key(attributes, <<s_data>>) = None)
              => ret.detected_type = SOURCE_TYPE_ENERGI_DATA_SERVICE

----------------------------------------------------------------------------
(* Claims about the parsers *)

EpexCalled == call = "EpexSpotParser.parse_prices"
HourlyCalled == call = "EnergiDataServiceParser.parse_prices"
Returned == ret.kind = "ParsedPriceData"

\* the elements of the array stored under name (none when it is absent)
ArrayItems(name) ==
    IF Contains(attributes, name) THEN GetItem(attributes, StrKey(name)).items ELSE <<>>

DataItems == ArrayItems(s_data)
RawToday == ArrayItems(s_raw_today)
RawTomorrow == ArrayItems(s_raw_tomorrow)

\* t lies in the half-open range [start_time, end_time) of e
InRange(e, t) ==
    /\ Comparable(e.start_time, t) /\ Comparable(t, e.end_time)
    /\ Instant(e.start_time) <= Instant(t)
    /\ Instant(t) < Instant(e.end_time)

\* e is an entry of the bucket
InBucket(bucket, e) == \E k \in DOMAIN bucket : bucket[k] = e

\* the number of times e occurs in q
Count(q, e) == Cardinality({ k \in DOMAIN q : q[k] = e })

\* q and r hold the same entries, each as often
SameEntries(q, r) == \A e \in Range(q) \cup Range(r) : Count(q, e) = Count(r, e)

\* an EPEX element all of whose fields resolve, convert and compare with now
EpexWellFormed(entry) ==
    /\ entry.kind = "dict"
    /\ EpexFields(entry).ok
    /\ Comparable(EpexFields(entry).v.start_time, now)
    /\ Comparable(EpexFields(entry).v.end_time, now)

\* C4: the EPEX parser never raises, and its result is the one it gives for
\* the array without the elements whose keys do not resolve or whose values
\* cannot be converted or compared.
C4_EpexSkipAndContinue ==
    (EpexCalled /\ Contains(attributes, s_data)) =>
        /\ Returned
        /\ ret = EpexSpotParser_parse_prices(
                     EpexAttributes(SelectSeq(DataItems, EpexWellFormed)), now)

\* an hourly element whose own hour and price resolve and convert
HourlyOwnOk(entry) == entry.kind = "dict" /\ HourlyFields(entry).ok

\* every element of raw with a convertible hour and price has an interval in bucket
EachYields(raw, bucket) ==
    \A i \in DOMAIN raw :
        HourlyOwnOk(raw[i]) =>
            \E k \in DOMAIN bucket :
                /\ bucket[k].start_time = HourlyFields(raw[i]).v.start_time
                /\ bucket[k].price = HourlyFields(raw[i]).v.price

\* C5: a malformed element of raw_today or raw_tomorrow costs only itself:
\* every other element with a resolvable, convertible hour and price yields an
\* interval of the result.
C5_HourlySkipIsolation ==
    HourlyCalled =>
        /\ Returned
        /\ EachYields(RawToday, ret.today)
        /\ EachYields(RawTomorrow, ret.tomorrow)

\* every element of raw is well formed, and their hours compare with each other
AllWellFormed(raw) ==
    /\ \A i \in DOMAIN raw : HourlyOwnOk(raw[i])
    /\ \A i, j \in DOMAIN raw :
          Comparable(HourlyFields(raw[i]).v.start_time, HourlyFields(raw[j]).v.start_time)

StartOf(raw, i) == HourlyFields(raw[i]).v.start_time
PriceOf(raw, i) == HourlyFields(raw[i]).v.price

\* the end the neighbour rules give the i-th element of a today array
InferredEnd(raw, i) ==
    IF i < Len(raw) THEN StartOf(raw, i + 1)
    ELSE IF i > 1
         THEN DtAdd(StartOf(raw, i), Instant(StartOf(raw, i)) - Instant(StartOf(raw, i - 1)))
         ELSE DtAdd(StartOf(raw, i), Hour)

InferredToday(raw) ==
    [i \in DOMAIN raw |-> PriceEntry(StartOf(raw, i), InferredEnd(raw, i), PriceOf(raw, i))]

\* C6: for a raw_today array of well-formed elements the today bucket holds,
\* for every element, the interval that ends at the next element's start, or
\* for the last element one as wide as the gap to the element before it, or
\* one hour wide when the element is alone.
C6_TodayEndInference ==
    (HourlyCalled /\ Returned /\ AllWellFormed(RawToday)) =>
        SameEntries(ret.today, InferredToday(RawToday))

\* C6 witness: elements at 00:00 and 01:00 gave the ends 01:00 and 02:00
C6_Witness ==
    /\ HourlyCalled /\ Returned
    /\ Len(RawToday) = 2 /\ AllWellFormed(RawToday)
    /\ StartOf(RawToday, 1) = Aware(48, Tz) /\ StartOf(RawToday, 2) = Aware(50, Tz)
    /\ Len(ret.today) = 2
    /\ ret.today[1].end_time = Aware(50, Tz)
    /\ ret.today[2].end_time = Aware(52, Tz)

\* the interval of the last element of raw_tomorrow, were its end end_time
LastTomorrow(end_time) ==
    PriceEntry(StartOf(RawTomorrow, Len(RawTomorrow)), end_time,
               PriceOf(RawTomorrow, Len(RawTomorrow)))

\* the width between the first two today elements, or one hour
TodayWidth ==
    IF Len(RawToday) >= 2
    THEN Instant(StartOf(RawToday, 2)) - Instant(StartOf(RawToday, 1))
    ELSE Hour

\* C7 as stated: the last element of raw_tomorrow gets its end from the
\* tomorrow element before it when there is one, and from the width of the
\* first two today elements (or one hour) only when it is alone.
C7_LastTomorrowFromOwnNeighbour ==
    (HourlyCalled /\ Returned /\ AllWellFormed(RawToday)
        /\ AllWellFormed(RawTomorrow) /\ Len(RawTomorrow) >= 1) =>
        LET n == Len(RawTomorrow)
            start_time == StartOf(RawTomorrow, n)
        IN InBucket(ret.tomorrow,
                    LastTomorrow(IF n > 1
                                 THEN DtAdd(start_time, Instant(start_time)
                                              - Instant(StartOf(RawTomorrow, n - 1)))
                                 ELSE DtAdd(start_time, TodayWidth)))

\* C7 amended: the end of the last element of raw_tomorrow is never inferred
\* from the tomorrow element before it; with well-formed arrays it is its
\* start plus the gap between the first two raw_today elements when there are
\* two, and its start plus one hour otherwise, however many elements
\* raw_tomorrow holds.
C7_LastTomorrowFromTodayWidth ==
    (HourlyCalled /\ Returned /\ AllWellFormed(RawToday)
        /\ AllWellFormed(RawTomorrow) /\ Len(RawTomorrow) >= 1) =>
        InBucket(ret.tomorrow,
                 LastTomorrow(DtAdd(StartOf(RawTomorrow, Len(RawTomorrow)), TodayWidth)))

\* C7 witness: raw_tomorrow holds 00:00 and 00:30, raw_today two elements an
\* hour apart, and the last tomorrow interval is an hour wide, not half an hour
C7_Witness ==
    /\ HourlyCalled /\ Returned
    /\ AllWellFormed(RawToday) /\ Len(RawToday) = 2 /\ TodayWidth = Hour
    /\ AllWellFormed(RawTomorrow) /\ Len(RawTomorrow) = 2
    /\ StartOf(RawTomorrow, 1) = Aware(96, Tz) /\ StartOf(RawTomorrow, 2) = Aware(97, Tz)
    /\ InBucket(ret.tomorrow, LastTomorrow(Aware(99, Tz)))

\* the price of the last entry of q whose range holds t, or None
LastInRange(q, t) ==
    IF \E i \in DOMAIN q : InRange(q[i], t)
    THEN Num(q[CHOOSE i \in DOMAIN q :
                  /\ InRange(q[i], t)
                  /\ \A j \in (i + 1)..Len(q) : ~InRange(q[j], t)].price)
    ELSE None

EpexConverts(entry) == EpexFields(entry).ok

\* the data elements that resolve and convert, in input order
EpexBuilt ==
    LET q == SelectSeq(DataItems, EpexConverts) IN [i \in DOMAIN q |-> EpexFields(q[i]).v]

\* the intervals built from raw_today and from raw_tomorrow, in input order
BuiltToday == TodayLoop(RawToday, Len(RawToday), now).today
BuiltTomorrow ==
    TomorrowLoop(TodayLoop(RawToday, Len(RawToday), now),
                 RawTomorrow, Len(RawTomorrow)).tomorrow

C9_CurrentPriceInToday ==
    ((EpexCalled \/ HourlyCalled) /\ Returned /\ ret.current_price # None) =>
        \E k \in DOMAIN ret.today :
            /\ InRange(ret.today[k], now)
            /\ Num(ret.today[k].price) = ret.current_price

WellFormedInterval(e) ==
    Comparable(e.start_time, e.end_time) /\ Instant(e.start_time) < Instant(e.end_time)

\* C10: every interval of the today and tomorrow buckets of either parser has
\* start_time < end_time.
C10_StartBeforeEnd ==
    ((EpexCalled \/ HourlyCalled) /\ Returned) =>
        /\ \A k \in DOMAIN ret.today : WellFormedInterval(ret.today[k])
        /\ \A k \in DOMAIN ret.tomorrow : WellFormedInterval(ret.tomorrow[k])

\* q is ascending by start_time
SortedByStart(q) ==
    \A i, j \in DOMAIN q :
        i < j => /\ Comparable(q[i].start_time, q[j].start_time)
                 /\ DtLe(q[i].start_time, q[j].start_time)

\* C11: in every ParsedPriceData returned by either parser, today and
\* tomorrow are each sorted ascending by start_time, whatever the order of
\* the input elements.
C11_SortedBuckets ==
    ((EpexCalled \/ HourlyCalled) /\ Returned) =>
        SortedByStart(ret.today) /\ SortedByStart(ret.tomorrow)

\* C11 witness: two elements of today given latest first come back earliest first
C11_Witness ==
    /\ EpexCalled /\ Returned
    /\ Len(EpexBuilt) = 2
    /\ Comparable(EpexBuilt[1].start_time, EpexBuilt[2].start_time)
    /\ DtLt(EpexBuilt[2].start_time, EpexBuilt[1].start_time)
    /\ ret.today = <<EpexBuilt[2], EpexBuilt[1]>>

StartsToday(e) == Date(e.start_time) = Date(now)
StartsTomorrow(e) == Date(e.start_time) = Date(now) + 1

\* C12: the today bucket of the EPEX parser holds exactly the converted
\* elements whose start has the calendar date of now, the tomorrow bucket
\* exactly those whose start has the next calendar date; an element of any
\* other date is in neither, and none is in both.
C12_EpexBucketing ==
    (EpexCalled /\ Returned) =>
        /\ SameEntries(ret.today, SelectSeq(EpexBuilt, StartsToday))
        /\ SameEntries(ret.tomorrow, SelectSeq(EpexBuilt, StartsTomorrow))
        /\ \A e \in Range(ret.today) : ~InBucket(ret.tomorrow, e)

\* C12 witness: of three kinds of converted elements, one that starts
\* yesterday is in neither bucket while one that starts today is in today
C12_Witness ==
    /\ EpexCalled /\ Returned
    /\ \E i \in DOMAIN EpexBuilt :
          /\ Date(EpexBuilt[i].start_time) < Date(now)
          /\ ~InBucket(ret.today, EpexBuilt[i])
          /\ ~InBucket(ret.tomorrow, EpexBuilt[i])
    /\ \E i \in DOMAIN EpexBuilt :
          StartsToday(EpexBuilt[i]) /\ InBucket(ret.today, EpexBuilt[i])

\* the ranges of q are well formed, strictly increasing and do not overlap
Increasing(q) ==
    /\ \A i \in DOMAIN q : WellFormedInterval(q[i])
    /\ \A i \in DOMAIN q :
          i < Len(q) => /\ Comparable(q[i].end_time, q[i + 1].start_time)
                        /\ DtLe(q[i].end_time, q[i + 1].start_time)

\* C13 as stated: for a valid EPEX-like input with strictly increasing,
\* non-overlapping ranges, len(today) + len(tomorrow) is the number of input
\* entries minus the number of entries that do not resolve or convert.
C13_CountPreserved ==
    (EpexCalled /\ Returned /\ ValidData /\ Increasing(EpexBuilt)) =>
        Len(ret.today) + Len(ret.tomorrow)
            = Len(DataItems) - Len(SelectSeq(DataItems, LAMBDA entry : ~EpexConverts(entry)))

\* C13 amended: for such an input len(today) + len(tomorrow) is the number of
\* entries that resolve and convert and whose start has the calendar date of
\* now or the next one; a converted entry of any other date is not counted.
C13_CountOfWindow ==
    (EpexCalled /\ Returned /\ ValidData /\ Increasing(EpexBuilt)) =>
        Len(ret.today) + Len(ret.tomorrow)
            = Cardinality({ i \in DOMAIN EpexBuilt :
                              StartsToday(EpexBuilt[i]) \/ StartsTomorrow(EpexBuilt[i]) })

\* C13 witness: two increasing ranges, the first starting yesterday, the
\* second tomorrow: both convert and one interval is returned
C13_Witness ==
    /\ EpexCalled /\ Returned /\ ValidData /\ Increasing(EpexBuilt)
    /\ Len(DataItems) = 2 /\ Len(EpexBuilt) = 2
    /\ Date(EpexBuilt[1].start_time) < Date(now)
    /\ StartsTomorrow(EpexBuilt[2])
    /\ Len(ret.today) + Len(ret.tomorrow) = 1

\* C14: in every result of the hourly parser each interval of today starts on
\* the calendar date of now and each interval of tomorrow on the next one.
C14_HourlyBucketDates ==
    (HourlyCalled /\ Returned) =>
        /\ \A k \in DOMAIN ret.today : StartsToday(ret.today[k])
        /\ \A k \in DOMAIN ret.tomorrow : StartsTomorrow(ret.tomorrow[k])

\* C15: tomorrow_valid of the hourly result is the boolean True exactly when
\* the upstream 'tomorrow_valid' field is present and truthy and the tomorrow
\* bucket is not empty, and the boolean False in every other case.
C15_TomorrowValid ==
    (HourlyCalled /\ Returned) =>
        ret.tomorrow_valid =
            Bool(/\ Contains(attributes, s_tomorrow_valid)
                 /\ Truthy(GetItem(attributes, StrKey(s_tomorrow_valid)))
                 /\ Len(ret.tomorrow) > 0)

ParseCalled == EpexCalled \/ HourlyCalled

\* C16: a parser called again on the same attributes returns the same
\* result: whenever a call of a parser follows a call of the same parser and
\* the attributes are the same, the second result equals the first.
C16_SameSnapshotSameResult ==
    [][(ParseCalled /\ call' = call /\ attributes' = attributes) => ret' = ret]_vars

----------------------------------------------------------------------------
(* Claims about the calculations *)

\* r, counted in d, is a multiple of d nearest to x
Nearest(r, x, d) ==
    LET diff == r * d - x IN 2 * (IF diff < 0 THEN 0 - diff ELSE diff) <= d

\* the sum of the six fixed costs of params, in 1/10000 EUR
FixedCosts ==
    params.supplier_cost + params.green_certificates + params.chp_certificates
    + params.distribution_cost + params.energy_contribution + params.excise_tax

\* C17: calculate_consumption_price(p) is (p * consumption_multiplier + the
\* six fixed costs, each once) * (1 + vat_rate / 100) rounded to four
\* decimals; with the default parameters and p = 0.10 it is
\* round((0.10 * 1.02 + 0.1272) * 1.06, 4) = 0.2430.
C17_ConsumptionFormula ==
    call = "calculate_consumption_price" =>
        /\ ret.kind = "float"
        /\ Nearest(ret.n,
                   (market_price * params.consumption_multiplier + FixedCosts * 100)
                       * (100 + params.vat_rate),
                   10000)
        /\ (params = CostParameters /\ market_price = 1000) => ret.n = 2430

\* C17 witness: the default parameters and the market price 0.10 give 0.2430
C17_Witness ==
    /\ call = "calculate_consumption_price"
    /\ params = CostParameters /\ market_price = 1000
    /\ ret = Num(2430)

\* C18: calculate_injection_price(p) is p * injection_multiplier -
\* injection_deduction rounded to four decimals, with no VAT and no fixed
\* cost; for p = 0 it is -injection_deduction (-0.015 with the defaults).
C18_InjectionFormula ==
    call = "calculate_injection_price" =>
        /\ ret.kind = "float"
        /\ Nearest(ret.n,
                   market_price * params.injection_multiplier
                       - params.injection_deduction * 100,
                   100)
        /\ market_price = 0 => ret.n = 0 - params.injection_deduction
        /\ (params = CostParameters /\ market_price = 0) => ret.n = 0 - 150

\* C18 witness: the default parameters and the market price 0 give -0.015
C18_Witness ==
    /\ call = "calculate_injection_price"
    /\ params = CostParameters /\ market_price = 0
    /\ ret = Num(0 - 150)

AllPricesCalled == call = "calculate_all_prices"

\* the transformed prices of a bucket, its detailed records and its
\* hour/price records, for the price function f
PricesOf(bucket, f) ==
    [i \in DOMAIN bucket |-> Num(price_func(f, bucket[i].price, params))]

RecordsOf(bucket, f) ==
    [i \in DOMAIN bucket |->
        Dict(<<Item(StrKey(s_start_time), IsoStr(bucket[i].start_time)),
               Item(StrKey(s_end_time), IsoStr(bucket[i].end_time)),
               Item(StrKey(s_price_per_kwh), Num(price_func(f, bucket[i].price, params)))>>)]

\* raw is the hour/price list aligned with the first records of data
Aligned(raw, data, n) ==
    /\ raw.kind = "list" /\ Len(raw.items) = n
    /\ data.kind = "list" /\ Len(data.items) >= n
    /\ \A i \in 1..n :
          /\ GetItem(raw.items[i], StrKey(s_hour)) = GetItem(data.items[i], StrKey(s_start_time))
          /\ GetItem(raw.items[i], StrKey(s_price))
                 = GetItem(data.items[i], StrKey(s_price_per_kwh))

\* the current price of the priced set c is f of the parsed one, or absent
CurrentPriceOf(c, f) ==
    c.current_price = IF parsed_data.current_price = None THEN None
                      ELSE Num(price_func(f, parsed_data.current_price.n, params))

\* the priced set c carries every list at full length, as a list
ElementWise(c, f) ==
    /\ c.today = List(PricesOf(parsed_data.today, f))
    /\ c.tomorrow = List(PricesOf(parsed_data.tomorrow, f))
    /\ c.data = List(RecordsOf(parsed_data.today, f) \o RecordsOf(parsed_data.tomorrow, f))
    /\ Aligned(c.raw_today, c.data, Len(parsed_data.today))
    /\ CurrentPriceOf(c, f)

\* C19 as stated: for both price functions f the priced set has today[i] =
\* f(parsed.today[i].price) and tomorrow[j] = f(parsed.tomorrow[j].price)
\* with the lengths and the order of the parsed buckets, data is the today
\* records followed by the tomorrow records, raw_today[i] has the start and
\* the price of the i-th record of data, and current_price is
\* f(parsed.current_price) when that is present (0.0 included), else absent.
C19_ElementWiseAligned ==
    AllPricesCalled =>
        /\ ElementWise(ret.items[1], "calculate_consumption_price")
        /\ ElementWise(ret.items[2], "calculate_injection_price")

\* a list as the priced set carries it: None in place of an empty list
Carried(q) == IF q = <<>> THEN None ELSE List(q)

ElementWiseOrNone(c, f) ==
    /\ c.today = Carried(PricesOf(parsed_data.today, f))
    /\ c.tomorrow = Carried(PricesOf(parsed_data.tomorrow, f))
    /\ c.data = Carried(RecordsOf(parsed_data.today, f) \o RecordsOf(parsed_data.tomorrow, f))
    /\ IF parsed_data.today = <<>> THEN c.raw_today = None
       ELSE Aligned(c.raw_today, c.data, Len(parsed_data.today))
    /\ CurrentPriceOf(c, f)

\* C19 amended: as stated for every bucket that is not empty; for an empty
\* bucket the priced set carries None in place of the list (today, raw_today
\* resp. tomorrow, raw_tomorrow), and data is None when both buckets are
\* empty.
C19_ElementWiseOrNone ==
    AllPricesCalled =>
        /\ ElementWiseOrNone(ret.items[1], "calculate_consumption_price")
        /\ ElementWiseOrNone(ret.items[2], "calculate_injection_price")

\* C19 witness: two intervals today, none tomorrow and the current price 0.0:
\* data has the two today records, tomorrow is None, and the current price of
\* the consumption set is that of the price 0.0
C19_Witness ==
    /\ AllPricesCalled
    /\ Len(parsed_data.today) = 2 /\ parsed_data.tomorrow = <<>>
    /\ parsed_data.current_price = Num(0)
    /\ Len(ret.items[1].data.items) = 2
    /\ ret.items[1].tomorrow = None
    /\ ret.items[1].current_price = Num(calculate_consumption_price(0, params))

\* the statistics lo, hi and mean are those of the transformed prices
StatsOf(prices, lo, hi, mean) ==
    IF prices = None THEN lo = None /\ hi = None /\ mean = None
    ELSE /\ lo.kind = "float" /\ hi.kind = "float" /\ mean.kind = "float"
         /\ \E i \in DOMAIN prices.items : prices.items[i] = lo
         /\ \A i \in DOMAIN prices.items : lo.n <= prices.items[i].n
         /\ \E i \in DOMAIN prices.items : prices.items[i] = hi
         /\ \A i \in DOMAIN prices.items : hi.n >= prices.items[i].n
         /\ Nearest(mean.n,
                    sum([i \in DOMAIN prices.items |-> prices.items[i].n]),
                    Len(prices.items))

BucketStats(c) ==
    /\ (c.today = None) = (parsed_data.today = <<>>)
    /\ (c.tomorrow = None) = (parsed_data.tomorrow = <<>>)
    /\ StatsOf(c.today, c.today_min, c.today_max, c.today_mean)
    /\ StatsOf(c.tomorrow, c.tomorrow_min, c.tomorrow_max, c.tomorrow_mean)

\* C20: for each bucket of each priced set min and max are the least and the
\* greatest of the transformed prices of the bucket and mean is their
\* arithmetic mean rounded to four decimals; for an empty bucket all three
\* are None.
C20_BucketStatistics ==
    AllPricesCalled => BucketStats(ret.items[1]) /\ BucketStats(ret.items[2])

\* C20 witness: three today prices whose mean is no multiple of 0.0001 and
\* whose least price is not the first, and an empty tomorrow bucket with no
\* statistics
C20_Witness ==
    /\ AllPricesCalled
    /\ Len(parsed_data.today) = 3 /\ parsed_data.tomorrow = <<>>
    /\ sum([i \in 1..3 |-> ret.items[2].today.items[i].n]) % 3 # 0
    /\ ret.items[2].today_min # ret.items[2].today.items[1]
    /\ ret.items[2].today_mean.kind = "float"
    /\ ret.items[2].tomorrow_min = None /\ ret.items[2].tomorrow_mean = None

----------------------------------------------------------------------------
(* Claims about the diagnostics of the shape analyzer *)

\* C25: whenever neither a valid 'data' array nor a valid 'raw_today' array
\* is present, analyze_sensor_shape returns the detected type None with
\* details["attribute_keys"] equal to the list of all top-level keys of the
\* mapping, in the mapping's order; and whenever a type is detected the details
\* are empty.
C25_UnknownDiagnostics ==
    call = "analyze_sensor_shape" =>
        /\ (~ValidData /\ ~ValidRawToday) =>
              /\ ret.detected_type = "None"
              /\ "attribute_keys" \in DOMAIN ret.details
              /\ ret.details["attribute_keys"]
                    = [i \in DOMAIN attributes.items |-> attributes.items[i].k]
        /\ ret.detected_type # "None" => DOMAIN ret.details = {}

\* C25 witness: {foo: [1]} is analysed, no type is detected and the details
\* list the key foo
C25_Witness ==
    /\ call = "analyze_sensor_shape"
    /\ attributes = Dict(<<Item(StrKey(s_foo), List(<<Num(1)>>))>>)
    /\ ret.detected_type = "None"
    /\ ret.details["attribute_keys"] = <<StrKey(s_foo)>>

\* C26: two analyses of a sensor whose 'data' and 'raw_today' arrays differ
\* between them only in entries other than the first (the arrays keeping
\* their non-zero lengths) return the same detected type.
C26_FirstElementOnly ==
    [][(call = "analyze_sensor_shape" /\ call' = "analyze_sensor_shape")
          => ret'.detected_type = ret.detected_type]_vars

\* C26 witness: the 'data' array analysed has a conforming first entry and a
\* second entry that is no mapping, and the EPEX type is detected
C26_Witness ==
    /\ call = "analyze_sensor_shape"
    /\ attributes.items[1].k = StrKey(s_data)
    /\ Len(attributes.items[1].v.items) = 2
    /\ attributes.items[1].v.items[2] = Num(1)
    /\ ret.detected_type = SOURCE_TYPE_EPEX_SPOT

----------------------------------------------------------------------------
(* Claims about the config flow *)

\* the state of the sensor submitted to the user step
Selected == event[CONF_SOURCE_ENTITY]
UserSubmitted == call = "async_step_user" /\ event # None

\* the user form shown again with the error, the flow staying at the user step
ShownAgain(error) ==
    /\ ret = async_show_form("user", [base |-> error])
    /\ flow.cur_step = "user"

\* C24: a selected sensor that is missing, has no attributes or has
\* attributes of no known shape leads back to the user form with the error
\* sensor_not_found, no_attributes or cannot_parse; the costs step is reached
\* only with the type that analyze_sensor_shape detects for the selected
\* sensor, and every config entry the flow creates stores that sensor and
\* that type.
C24_ClassificationFailure ==
    /\ UserSubmitted =>
          /\ Selected \notin DOMAIN hass.states => ShownAgain("sensor_not_found")
          /\ (Selected \in DOMAIN hass.states /\ hass.states[Selected].items = <<>>)
                => ShownAgain("no_attributes")
          /\ (/\ Selected \in DOMAIN hass.states
              /\ hass.states[Selected].items # <<>>
              /\ analyze_sensor_shape(hass.states[Selected]).detected_type = "None")
                => ShownAgain("cannot_parse")
          /\ flow.cur_step = "costs" =>
                /\ Selected \in DOMAIN hass.states
                /\ flow._source_entity_id = Selected
                /\ flow._source_type
                      = analyze_sensor_shape(hass.states[Selected]).detected_type
    /\ flow.cur_step \in {"costs", "done"} =>
          flow._source_type \in {SOURCE_TYPE_EPEX_SPOT, SOURCE_TYPE_ENERGI_DATA_SERVICE}
    /\ flow.cur_step = "done" =>
          /\ call = "async_step_costs" => ret.type = "create_entry"
          /\ hass.config_entries[Len(hass.config_entries)].data
                = EntryData(flow._source_entity_id, flow._source_type)
    /\ flow.cur_step # "done" =>
          \A i \in DOMAIN hass.config_entries :
             hass.config_entries[i].data = EntryData("sensor.a", SOURCE_TYPE_EPEX_SPOT)

\* C24 witness: a sensor of no known shape has been submitted, the user form
\* is shown again with cannot_parse and no config entry exists
C24_Witness ==
    /\ UserSubmitted
    /\ Selected \in DOMAIN hass.states
    /\ hass.states[Selected] = UnknownSensor
    /\ ShownAgain("cannot_parse")
    /\ hass.config_entries = <<>>

\* an entry is created with the hourly type detected for the selected sensor
C24_EntryCreated ==
    /\ call = "async_step_costs"
    /\ hass.config_entries[Len(hass.config_entries)].data
          = EntryData("sensor.b", SOURCE_TYPE_ENERGI_DATA_SERVICE)

----------------------------------------------------------------------------
(* Claims about the coordinator *)

\* a refresh cycle has just ended; nothing the cycle reads has changed since
Cycled == call = "_async_update_data" /\ event.now = now

\* what the parser of the coordinator makes of the source sensor now
Parsed == parse_prices(coordinator.parser, hass.states[SourceId], now)

\* the conditions of lines 147, 151, 157-160 and 162 under which a cycle
\* gets to the calculations
CycleInputValid ==
    /\ SourceId \in DOMAIN hass.states
    /\ hass.states[SourceId].items # <<>>
    /\ Parsed.kind # "raise"
    /\ Parsed.today # <<>>

\* C21: a refresh cycle returns the consumption and injection sets exactly
\* when the source state exists, its attributes are not empty, parse_prices
\* did not raise and the today bucket is not empty; every other cycle ends
\* with UpdateFailed, whatever the tomorrow bucket and current_price hold.
C21_PublicationGuard ==
    Cycled =>
       /\ ret.kind = "data" <=> CycleInputValid
       /\ ret.kind # "data" => ret = RaisedOut("UpdateFailed")

\* C21 witness: a cycle has parsed a sensor whose today bucket is empty and
\* whose tomorrow bucket is not, and ended with UpdateFailed
C21_Witness ==
    /\ Cycled
    /\ SourceId \in DOMAIN hass.states
    /\ Parsed.kind # "raise"
    /\ Parsed.today = <<>>
    /\ Parsed.tomorrow # <<>>
    /\ ret = RaisedOut("UpdateFailed")

\* a cycle has parsed a sensor whose today bucket is empty and whose
\* current_price is present, and ended with UpdateFailed
C21_CurrentPriceOnly ==
    /\ Cycled
    /\ SourceId \in DOMAIN hass.states
    /\ Parsed.kind # "raise"
    /\ Parsed.today = <<>>
    /\ Parsed.current_price # None
    /\ ret = RaisedOut("UpdateFailed")

\* the cost parameters a cycle resolves now
CycleParameters ==
    _get_cost_parameters(coordinator,
                         hass.config_entries[coordinator.config_entry].options, entities)

\* the outcome of a cycle as a function of the attributes of the source, the
\* instant and the cost parameters alone
OutcomeOf(parsed, cp) ==
    IF parsed.kind = "raise" \/ parsed.today = <<>> THEN RaisedOut("UpdateFailed")
    ELSE PriceDataOf(calculate_all_prices(parsed, Floats(cp)))

\* C22: the outcome of every refresh cycle is determined by the attributes of
\* the source at that cycle, the instant and the cost parameters; whether
\* earlier cycles failed, and how many, changes nothing, so that a cycle with
\* valid input that follows failed cycles returns what it would have returned
\* without them.
C22_ErrorsScopedToCycle ==
    Cycled =>
       IF SourceId \in DOMAIN hass.states /\ hass.states[SourceId].items # <<>>
       THEN ret = OutcomeOf(Parsed, CycleParameters)
       ELSE ret = RaisedOut("UpdateFailed")

\* C22 witness: a cycle with valid input has returned data right after a
\* cycle that failed
C22_Witness ==
    /\ Cycled
    /\ CycleInputValid
    /\ ret.kind = "data"
    /\ ~event.last_update_success

\* the options of the config entry of the coordinator
EntryOptions == hass.config_entries[coordinator.config_entry].options

\* the value the three rules give the i-th parameter: the value of the number
\* entity registered for it unless that is None, else the option of that
\* name, else the default
ResolvedValue(i) ==
    LET k == NUMBER_ENTITIES[i].key IN
    IF k \in DOMAIN coordinator._number_entities
       /\ entities[coordinator._number_entities[k]]._attr_native_value # None
    THEN entities[coordinator._number_entities[k]]._attr_native_value
    ELSE IF k \in DOMAIN EntryOptions THEN EntryOptions[k]
    ELSE NUMBER_ENTITIES[i].default

\* C23: for each of the ten parameters the value a cycle uses is the
\* native_value of the number entity registered for the key when there is one
\* and its value is not None, else the value of the key in the options of the
\* config entry when it is there, else the default constant; the sets a cycle
\* returns are computed with these values.
C23_ParameterResolution ==
    coordinator # None =>
       /\ \A i \in DOMAIN NUMBER_ENTITIES :
             CycleParameters[NUMBER_ENTITIES[i].key] = ResolvedValue(i)
       /\ (Cycled /\ ret.kind = "data") =>
             ret = PriceDataOf(calculate_all_prices(Parsed,
                      [k \in DOMAIN CycleParameters |->
                          ResolvedValue(CHOOSE i \in DOMAIN NUMBER_ENTITIES :
                                           NUMBER_ENTITIES[i].key = k).n]))

\* C23 witness: a cycle has returned data computed with the VAT rate of the
\* number entity, which is not the VAT rate of the options, and with the
\* supplier cost of the entity, which was initialised to the default
C23_Witness ==
    /\ Cycled
    /\ ret.kind = "data"
    /\ CONF_VAT_RATE \in DOMAIN coordinator._number_entities
    /\ CONF_VAT_RATE \in DOMAIN EntryOptions
    /\ entities[CONF_VAT_RATE]._attr_native_value # EntryOptions[CONF_VAT_RATE]
    /\ CycleParameters[CONF_VAT_RATE] = entities[CONF_VAT_RATE]._attr_native_value
    /\ ret # PriceDataOf(calculate_all_prices(Parsed,
                Floats([CycleParameters EXCEPT ![CONF_VAT_RATE] = EntryOptions[CONF_VAT_RATE]])))

\* a cycle before any entity is registered has used the VAT rate of the
\* options and the default of a parameter the options do not hold
C23_OptionsThenDefault ==
    /\ Cycled
    /\ ret.kind = "data"
    /\ DOMAIN coordinator._number_entities = {}
    /\ EntryOptions = PartialOptions
    /\ CycleParameters[CONF_VAT_RATE] = Num(21)
    /\ CycleParameters[CONF_SUPPLIER_COST] = Num(DEFAULT_SUPPLIER_COST)

\* a step that is a refresh cycle: the other handlers name themselves in
\* call, and the clock never stands still in a step of its own
CycleStep == call' = "_async_update_data" /\ now' = now

\* C27: a refresh cycle is one step that no timer trigger, state-change
\* notification, change of a number entity or options update interleaves
\* with: it leaves the source state, the options and the entity values as
\* they were when it began, and both sets it returns are computed from the
\* attributes and the cost parameters of that one state.
C27_CycleAtomicity ==
    [][CycleStep =>
          /\ hass' = hass
          /\ entities' = entities
          /\ coordinator'._number_entities = coordinator._number_entities
          /\ ret'.kind = "data" =>
                /\ CycleInputValid
                /\ ret'.consumption
                      = calculate_all_prices(Parsed, Floats(CycleParameters)).items[1]
                /\ ret'.injection
                      = calculate_all_prices(Parsed, Floats(CycleParameters)).items[2]]_vars

\* C27 witness: a cycle has returned data after the options were replaced by
\* the defaults and the VAT rate was set on its number entity, the other
\* entities still holding the values of the first options
C27_Witness ==
    /\ Cycled
    /\ ret.kind = "data"
    /\ EntryOptions = DefaultOptions
    /\ CONF_VAT_RATE \in DOMAIN entities
    /\ entities[CONF_VAT_RATE]._attr_native_value \in SetValues
    /\ entities[CONF_SUPPLIER_COST]._attr_native_value = CustomOptions[CONF_SUPPLIER_COST]
    /\ event.last_update_success
    /\ ret.injection # ret.consumption

\* the type stored in the config entry of the coordinator
StoredType == hass.config_entries[coordinator.config_entry].data[CONF_SOURCE_TYPE]

\* the source has the other known shape and lacks the array of the stored one
ShapeChanged ==
    /\ SourceId \in DOMAIN hass.states
    /\ analyze_sensor_shape(hass.states[SourceId]).detected_type
          \in {SOURCE_TYPE_EPEX_SPOT, SOURCE_TYPE_ENERGI_DATA_SERVICE} \ {StoredType}
    /\ IF StoredType = SOURCE_TYPE_EPEX_SPOT
       THEN EpexSpotParser_get_data_key(hass.states[SourceId]) = None
       ELSE EnergiDataServiceParser_get_raw_today_key(hass.states[SourceId]) = None

\* C28: the parser of a coordinator is at all times the one that
\* get_parser_by_type gives for the source type stored in the config entry,
\* and a cycle that finds the source in the other known shape, without the
\* array of the stored shape, ends with UpdateFailed.
C28_ParserFixedAtSetup ==
    coordinator # None =>
       /\ coordinator.parser = get_parser_by_type(StoredType)
       /\ (Cycled /\ ShapeChanged) => ret = RaisedOut("UpdateFailed")

\* C28 witness: the coordinator was set up for an EPEX sensor, its first
\* refresh having returned data; the source is now an hourly sensor with
\* entries of today, and the last two cycles have failed
C28_Witness ==
    /\ coordinator # None
    /\ Cycled
    /\ StoredType = SOURCE_TYPE_EPEX_SPOT
    /\ SourceId \in DOMAIN hass.states
    /\ hass.states[SourceId] = HourlySensor
    /\ EnergiDataServiceParser_parse_prices(HourlySensor, now).today # <<>>
    /\ ret = RaisedOut("UpdateFailed")
    /\ ~event.last_update_success

\* the number entities are registered in the coordinator
Registered == coordinator # None /\ DOMAIN coordinator._number_entities # {}

\* a step that is an options update: the options of the entry are replaced
OptionsStep ==
    /\ call' = "async_options_updated"
    /\ hass'.config_entries # hass.config_entries

\* C29: once the number entities are registered, none of them holds None and
\* the value resolved for every parameter is the current value of its entity,
\* whatever the options hold; and an options update asks for a refresh and
\* changes neither an entity value, nor a resolved parameter, nor the source
\* state, the instant or the parser, which is all the outcome of a cycle
\* depends on.
C29_EntitiesShadowOptions ==
    /\ [](Registered =>
            \A i \in DOMAIN NUMBER_ENTITIES :
               LET k == NUMBER_ENTITIES[i].key IN
                  /\ k \in DOMAIN coordinator._number_entities
                  /\ entities[k]._attr_native_value # None
                  /\ CycleParameters[k] = entities[k]._attr_native_value)
    /\ [][OptionsStep =>
            /\ Registered
            /\ coordinator'.refresh_requested
            /\ entities' = entities
            /\ CycleParameters' = CycleParameters
            /\ hass'.states = hass.states
            /\ now' = now
            /\ coordinator'.parser = coordinator.parser]_vars

\* C29 witness: the options were replaced after the entities had been made
\* from options without a supplier cost, and a cycle has then returned data
\* computed with the supplier cost of the entity, not with that of the options
C29_Witness ==
    /\ Registered
    /\ Cycled
    /\ ret.kind = "data"
    /\ EntryOptions = CustomOptions
    /\ entities[CONF_SUPPLIER_COST]._attr_native_value = Num(DEFAULT_SUPPLIER_COST)
    /\ EntryOptions[CONF_SUPPLIER_COST] # Num(DEFAULT_SUPPLIER_COST)
    /\ CycleParameters[CONF_SUPPLIER_COST] = Num(DEFAULT_SUPPLIER_COST)

\* a step that adds an entity to Home Assistant, and one that changes the
\* value of an entity that was added before
AddedStep == call' = "async_added_to_hass" /\ entities' # entities
ValueChanged(k) ==
    /\ k \in DOMAIN entities
    /\ entities[k].added
    /\ entities'[k]._attr_native_value # entities[k]._attr_native_value

\* C30 as stated: a refresh cycle that returns data has computed it with the
\* value v of every call async_set_native_value(v) made since the cycle
\* before it.
C30_NextCycleUsesEveryValue ==
    (Cycled /\ ret.kind = "data") =>
       \A c \in event.set_calls : CycleParameters[c.param_key] = c.value

\* C30 amended: a call async_set_native_value(v) stores v in the entity and
\* asks the coordinator for a refresh; a cycle that returns data has computed
\* both sets with the current value of every entity, which for an entity set
\* since the cycle before is the value of one of these calls, the last one,
\* since the value of an added entity changes in no other step; and
\* async_added_to_hass stores the restored value, when there is one, without
\* asking for a refresh.
C30_ParameterChangePropagates ==
    /\ [](call = "async_set_native_value" =>
            /\ entities[event.param_key]._attr_native_value = event.value
            /\ coordinator.refresh_requested
            /\ event \in set_calls)
    /\ []((Cycled /\ ret.kind = "data") =>
            /\ \A c \in event.set_calls :
                  /\ CycleParameters[c.param_key] = entities[c.param_key]._attr_native_value
                  /\ \E d \in event.set_calls :
                        /\ d.param_key = c.param_key
                        /\ CycleParameters[c.param_key] = d.value
            /\ ret = PriceDataOf(calculate_all_prices(Parsed, Floats(CycleParameters))))
    /\ [][\A k \in SetKeys :
             ValueChanged(k) =>
                /\ call' = "async_set_native_value"
                /\ event' = [param_key |-> k, value |-> entities'[k]._attr_native_value]]_vars
    /\ [][AddedStep =>
             /\ coordinator' = coordinator
             /\ set_calls' = set_calls
             /\ (event'.last_number_data # None
                 /\ event'.last_number_data.native_value # None) =>
                   entities'[event'.param_key]._attr_native_value
                      = event'.last_number_data.native_value]_vars

\* C30 witness: the VAT rate was set twice, to 12 and then to 6, and the cycle
\* after the two calls has returned data computed with 6
C30_Witness ==
    /\ Cycled
    /\ ret.kind = "data"
    /\ event.set_calls = { [param_key |-> CONF_VAT_RATE, value |-> Num(12)],
                           [param_key |-> CONF_VAT_RATE, value |-> Num(6)] }
    /\ entities[CONF_VAT_RATE]._attr_native_value = Num(6)
    /\ CycleParameters[CONF_VAT_RATE] = Num(6)

\* a restored value was stored while no refresh was asked for
C30_RestoredWithoutRefresh ==
    /\ call = "async_added_to_hass"
    /\ event.param_key = CONF_VAT_RATE
    /\ event.last_number_data = [native_value |-> RestoredValue(CONF_VAT_RATE)]
    /\ entities[CONF_VAT_RATE]._attr_native_value = RestoredValue(CONF_VAT_RATE)
    /\ ~coordinator.refresh_requested

====
